---------------------------- MODULE Spec2Model ----------------------------
(***************************************************************************)
(* Model of the texheaders package: the texHeaders.bin codec (Read/Write)  *)
(* and the Builder with its worker pool.                                   *)
(*                                                                         *)
(* Representation: a byte is an integer 0..255, a byte string (a Go string *)
(* or []byte) is a sequence of bytes, a uint16 is an integer 0..65535 and  *)
(* a uint32 is a record [hi, lo] of its two 16-bit halves, so that the     *)
(* whole 32-bit range, 0xFFFFFFFF included, is representable.  A float32   *)
(* is the record [sign, exp, frac] of its IEEE-754 fields.                 *)
(***************************************************************************)
EXTENDS Integers, Sequences, FiniteSets, TLC

VARIABLES
    \* ---- codec: one decode / encode / decode session
    phase,      \* "start" | "made" | "read" | "written" | "reread" | "truncated"
    inbuf,      \* the bytes handed to Read
    file,       \* the *File held by the caller (Read's result or caller-made)
    rerr,       \* the error Read returned
    out,        \* the bytes Write has written to the stream
    werr,       \* the error Write returned
    file2,      \* the *File of Read(out)
    rerr2,      \* the error of Read(out)
    src,        \* "bytes": the session starts from a buffer; "file": from a File
    val,        \* the last Validate call: [call, index, err]
    call,       \* the last call of a pure helper: [fn, arg, rule, res]
    \* ---- Builder
    opts,         \* b.opts
    inputs,       \* b.inputs
    inputsSorted, \* b.inputsSorted
    issues,       \* b.issues
    appendErr,    \* the error the last Append returned
    bpc,          \* "idle" | "dispatch" | "wait" | "done": where Build stands
    bfile,        \* the *File Build returned, while the caller holds it
    berr,         \* the error Build returned, while the caller holds it
    \* ---- Build's worker pool (the parallel path)
    jobs,         \* the buffered channel of job indices
    jobsClosed,   \* close(jobs) has run
    nextJob,      \* the dispatch loop's index
    wpc,          \* per worker: "recv" | "build" | "exit"
    whold,        \* per worker: the index it received
    entries,      \* the result slots entries[i]
    errs,         \* the result slots errs[i]
    wg,           \* the WaitGroup counter
    \* ---- history (not program state)
    appended,     \* the paths Append accepted, in call order
    recvCount,    \* per index: how often a worker received it in this Build
    slotWrites,   \* per index: how often its result slot was written
    buildHist     \* [builtLen, serialCalls, last, prev]: see NoHist

codecVars == <<phase, inbuf, file, rerr, out, werr, file2, rerr2, src, val, call>>
builderVars == <<opts, inputs, inputsSorted, issues, appendErr, bpc, bfile, berr>>
poolVars == <<jobs, jobsClosed, nextJob, wpc, whold, entries, errs, wg>>
histVars == <<appended, recvCount, slotWrites, buildHist>>
buildVars == <<builderVars, poolVars, histVars>>
vars == <<codecVars, buildVars>>

----------------------------------------------------------------------------
\* Bounds of the model.
MaxTextures == 2    \* entries per file
MaxMips == 2        \* mip descriptors per entry
MaxInputs == 3      \* paths appended to a Builder
MaxValMips == 3     \* mip descriptors per entry handed to the validator
MaxPathLen == 5     \* bytes of a path drawn from PathBytes
MaxProcs == 40      \* largest runtime.GOMAXPROCS(0)
MaxRequested == 6   \* largest Workers handed to resolveBuildWorkers
MaxFileCount == 9   \* largest fileCount handed to resolveBuildWorkers
MaxWorkers == 3     \* largest explicit BuildOptions.Workers

----------------------------------------------------------------------------
\* Fixed-width integers.

U32(n) == [hi |-> n \div 65536, lo |-> n % 65536]
U32Int(v) == v.hi * 65536 + v.lo
U32Lt(a, b) == a.hi < b.hi \/ (a.hi = b.hi /\ a.lo < b.lo)
MaxUint32 == [hi |-> 65535, lo |-> 65535]

\* binary.LittleEndian.PutUint16 / Uint16
PutUint16(v) == << v % 256, v \div 256 >>
Uint16(b) == b[1] + 256 * b[2]
\* binary.LittleEndian.PutUint32 / Uint32
PutUint32(v) == PutUint16(v.lo) \o PutUint16(v.hi)
Uint32(b) == [hi |-> Uint16(<<b[3], b[4]>>), lo |-> Uint16(<<b[1], b[2]>>)]
\* math.Float32frombits / math.Float32bits
Float32frombits(u) ==
    [sign |-> u.hi \div 32768,
     exp  |-> (u.hi \div 128) % 256,
     frac |-> (u.hi % 128) * 65536 + u.lo]
Float32bits(f) ==
    [hi |-> f.sign * 32768 + f.exp * 128 + (f.frac \div 65536),
     lo |-> f.frac % 65536]

\* FileMagic = "0DHT", SupportedVersion = 1
FileMagic == <<48, 68, 72, 84>>
SupportedVersion == U32(1)

----------------------------------------------------------------------------
\* Errors.  A nil error is NoErr; every error has the same record shape.

NoErr == [cause |-> "nil", op |-> "", entry |-> -1, mip |-> -1]
Err(cause, op) == [cause |-> cause, op |-> op, entry |-> -1, mip |-> -1]
\* fmt.Errorf("read texture entry %d: %w", i, err) / "read mipmap %d: %w"
WrapEntry(e, i) == [e EXCEPT !.entry = i]
WrapMip(e, j) == [e EXCEPT !.mip = j]

NilFile == [isNil |-> TRUE, Magic |-> <<>>, Version |-> U32(0), Textures |-> <<>>]
MkFile(m, v, t) == [isNil |-> FALSE, Magic |-> m, Version |-> v, Textures |-> t]

----------------------------------------------------------------------------
\* Decoder.  d.r is the byte sequence buf, read from the 1-based position pos.

\* io.ReadFull(d.r, p[:n]): n bytes or io.EOF (nothing left) or
\* io.ErrUnexpectedEOF (fewer than n left).
ReadFull(buf, pos, n) ==
    IF pos + n - 1 <= Len(buf)
    THEN [ok |-> TRUE, bytes |-> SubSeq(buf, pos, pos + n - 1), pos |-> pos + n,
          cause |-> "nil"]
    ELSE [ok |-> FALSE, bytes |-> <<>>, pos |-> pos,
          cause |-> IF pos > Len(buf) THEN "EOF" ELSE "ErrUnexpectedEOF"]

Fld(name, size) == [name |-> name, size |-> size]

\* The fixed-width fields readTextureEntry reads before the path, in order,
\* each with the label its short-read error is wrapped in.
EntryHeadFields ==
    << Fld("read color palette count", 4), Fld("read palette ptr", 4),
       Fld("read average float color[0]", 4), Fld("read average float color[1]", 4),
       Fld("read average float color[2]", 4), Fld("read average float color[3]", 4),
       Fld("read average color bytes", 4), Fld("read max color bytes", 4),
       Fld("read clamp flags", 4), Fld("read transparent color", 4),
       Fld("read has_max_ctagg", 1), Fld("read is_alpha", 1),
       Fld("read is_transparent", 1), Fld("read is_alpha_non_opaque", 1),
       Fld("read mip count", 4), Fld("read pax format", 4),
       Fld("read little_endian", 1), Fld("read is_paa", 1) >>

\* The fields readMipMap reads, in order.
MipFields ==
    << Fld("read width", 2), Fld("read height", 2), Fld("read always zero", 2),
       Fld("read mip pax format", 1), Fld("read always three", 1),
       Fld("read data offset", 4) >>

\* Evaluates e once and hands its value to F (a LET whose definition is
\* evaluated exactly once, whatever the number of uses).
Bind(e, F(_)) == CHOOSE y \in { F(r) : r \in {e} } : TRUE

\* Reads fields[k..] one after the other; stops at the first short read.
RECURSIVE readFields(_, _, _, _, _)
readFields(buf, pos, fields, k, acc) ==
    IF k > Len(fields)
    THEN [ok |-> TRUE, vals |-> acc, pos |-> pos, err |-> NoErr]
    ELSE Bind(ReadFull(buf, pos, fields[k].size), LAMBDA r :
         IF ~r.ok
         THEN [ok |-> FALSE, vals |-> acc, pos |-> pos,
               err |-> Err(r.cause, fields[k].name)]
         ELSE readFields(buf, r.pos, fields, k + 1, Append(acc, r.bytes)))

\* readBool8: any non-zero byte is true.
readBool8(b) == b[1] # 0

\* A string reader that hands on the error of the short read.
RECURSIVE readASCIIZPlainEOF(_, _, _)
readASCIIZPlainEOF(buf, pos, acc) ==
    Bind(ReadFull(buf, pos, 1), LAMBDA r :
    IF ~r.ok
    THEN [ok |-> FALSE, str |-> <<>>, pos |-> pos, err |-> Err(r.cause, "")]
    ELSE IF r.bytes[1] = 0
         THEN [ok |-> TRUE, str |-> acc, pos |-> r.pos, err |-> NoErr]
         ELSE readASCIIZPlainEOF(buf, r.pos, Append(acc, r.bytes[1])))
\* readASCIIZ: bytes up to the first zero byte; the stream ending first is
\* ErrInvalidASCIIZ.
RECURSIVE readASCIIZ(_, _, _)
readASCIIZ(buf, pos, acc) ==
    Bind(ReadFull(buf, pos, 1), LAMBDA r :
    IF ~r.ok
    THEN [ok |-> FALSE, str |-> <<>>, pos |-> pos, err |-> Err("ErrInvalidASCIIZ", "")]
    ELSE IF r.bytes[1] = 0
         THEN [ok |-> TRUE, str |-> acc, pos |-> r.pos, err |-> NoErr]
         ELSE readASCIIZ(buf, r.pos, Append(acc, r.bytes[1])))

readMipMap(buf, pos) ==
    Bind(readFields(buf, pos, MipFields, 1, <<>>), LAMBDA r :
    IF ~r.ok
    THEN [ok |-> FALSE, m |-> <<>>, pos |-> pos, err |-> r.err]
    ELSE [ok |-> TRUE, pos |-> r.pos, err |-> NoErr,
          m |-> [Width |-> Uint16(r.vals[1]), Height |-> Uint16(r.vals[2]),
                 AlwaysZero |-> Uint16(r.vals[3]), PaxFormat |-> r.vals[4][1],
                 AlwaysThree |-> r.vals[5][1], DataOffset |-> Uint32(r.vals[6])]])

\* The loop `for i := 0; i < mipCountCopy; i++ { readMipMap }`.
RECURSIVE readMipMaps(_, _, _, _, _)
readMipMaps(buf, pos, i, n, acc) ==
    IF ~U32Lt(U32(i), n)
    THEN [ok |-> TRUE, mips |-> acc, pos |-> pos, err |-> NoErr]
    ELSE Bind(readMipMap(buf, pos), LAMBDA r :
         IF ~r.ok
         THEN [ok |-> FALSE, mips |-> acc, pos |-> pos, err |-> WrapMip(r.err, i)]
         ELSE readMipMaps(buf, r.pos, i + 1, n, Append(acc, r.m)))

\* The entry readTextureEntry assembles from what it read: the fixed fields
\* h, the path p, the suffix type s, the mip count copy c, the mips ms and
\* the file size z.
entryOf(h, p, s, c, ms, z) ==
    [ColorPaletteCount |-> Uint32(h[1]),
     PalettePtr        |-> Uint32(h[2]),
     AverageColorF     |-> [i \in 1..4 |-> Float32frombits(Uint32(h[2 + i]))],
     AverageColor      |-> h[7],
     MaxColor          |-> h[8],
     ClampFlags        |-> Uint32(h[9]),
     TransparentColor  |-> Uint32(h[10]),
     HasMaxCtagg       |-> readBool8(h[11]),
     IsAlpha           |-> readBool8(h[12]),
     IsTransparent     |-> readBool8(h[13]),
     IsAlphaNonOpaque  |-> readBool8(h[14]),
     MipMapCount       |-> Uint32(h[15]),
     PaxFormat         |-> Uint32(h[16]),
     LittleEndian      |-> readBool8(h[17]),
     IsPAA             |-> readBool8(h[18]),
     PAAFile           |-> p,
     PaxSuffixType     |-> Uint32(s),
     MipMapCountCopy   |-> Uint32(c),
     MipMaps           |-> ms,
     PaxFileSize       |-> Uint32(z)]

readTextureEntry(buf, pos) ==
    LET Fail(e) == [ok |-> FALSE, entry |-> <<>>, pos |-> pos, err |-> e] IN
    Bind(readFields(buf, pos, EntryHeadFields, 1, <<>>), LAMBDA h :
    IF ~h.ok THEN Fail(h.err) ELSE
    Bind(readASCIIZ(buf, h.pos, <<>>), LAMBDA p :
    IF ~p.ok THEN Fail([p.err EXCEPT !.op = "read paa path"]) ELSE
    Bind(ReadFull(buf, p.pos, 4), LAMBDA s :
    IF ~s.ok THEN Fail(Err(s.cause, "read pax suffix type")) ELSE
    Bind(ReadFull(buf, s.pos, 4), LAMBDA c :
    IF ~c.ok THEN Fail(Err(c.cause, "read mip count copy")) ELSE
    Bind(readMipMaps(buf, c.pos, 0, Uint32(c.bytes), <<>>), LAMBDA ms :
    IF ~ms.ok THEN Fail(ms.err) ELSE
    Bind(ReadFull(buf, ms.pos, 4), LAMBDA z :
    IF ~z.ok THEN Fail(Err(z.cause, "read pax file size")) ELSE
    [ok |-> TRUE, pos |-> z.pos, err |-> NoErr,
     entry |-> entryOf(h.vals, p.str, s.bytes, c.bytes, ms.mips, z.bytes)]))))))

\* The loop `for i := 0; i < textureCount; i++ { readTextureEntry }`.
RECURSIVE readEntries(_, _, _, _, _)
readEntries(buf, pos, i, n, acc) ==
    IF ~U32Lt(U32(i), n)
    THEN [ok |-> TRUE, entries |-> acc, pos |-> pos, err |-> NoErr]
    ELSE Bind(readTextureEntry(buf, pos), LAMBDA r :
         IF ~r.ok
         THEN [ok |-> FALSE, entries |-> acc, pos |-> pos, err |-> WrapEntry(r.err, i)]
         ELSE readEntries(buf, r.pos, i + 1, n, Append(acc, r.entry)))

\* A magic check that accepts every tag.
readMagicAny(magic) == TRUE
\* Read's checks of the magic and of the version.
readMagicOK(magic) == magic = FileMagic
readVersionOK(version) == version = SupportedVersion

\* Read(r): (*File, error).
Read(buf) ==
    LET Fail(e) == [file |-> NilFile, err |-> e] IN
    Bind(ReadFull(buf, 1, 4), LAMBDA m :
    IF ~m.ok THEN Fail(Err(m.cause, "read magic")) ELSE
    IF ~readMagicOK(m.bytes) THEN Fail(Err("ErrInvalidMagic", "")) ELSE
    Bind(ReadFull(buf, m.pos, 4), LAMBDA v :
    IF ~v.ok THEN Fail(Err(v.cause, "read version")) ELSE
    IF ~readVersionOK(Uint32(v.bytes)) THEN Fail(Err("ErrUnsupportedVersion", "")) ELSE
    Bind(ReadFull(buf, v.pos, 4), LAMBDA t :
    IF ~t.ok THEN Fail(Err(t.cause, "read texture count")) ELSE
    Bind(readEntries(buf, t.pos, 0, Uint32(t.bytes), <<>>), LAMBDA es :
    IF ~es.ok THEN Fail(es.err) ELSE
    [file |-> MkFile(m.bytes, Uint32(v.bytes), es.entries), err |-> NoErr]))))

----------------------------------------------------------------------------
\* Encoder.  The stream is a writer that accepts every byte (a bytes.Buffer);
\* the value of an operator below is the byte sequence it appends.

writeU8(v) == <<v>>
\* A boolean writer whose two branches both write 0.
writeBool8Zero(v) == IF v THEN writeU8(0) ELSE writeU8(0)
writeBool8(v) == IF v THEN writeU8(1) ELSE writeU8(0)
writeU16(v) == PutUint16(v)
writeU32(v) == PutUint32(v)
writeF32(v) == writeU32(Float32bits(v))
writeASCIIZ(s) == s \o writeU8(0)

\* intToU32Strict(v) for the lengths the model can build (v >= 0 always; a
\* sequence of more than MaxUint32 elements is beyond every bound here).
intToU32Strict(v) ==
    IF v < 0 THEN [ok |-> FALSE, v |-> U32(0)] ELSE [ok |-> TRUE, v |-> U32(v)]

writeMipMap(m) ==
    writeU16(m.Width) \o writeU16(m.Height) \o writeU16(m.AlwaysZero)
    \o writeU8(m.PaxFormat) \o writeU8(m.AlwaysThree) \o writeU32(m.DataOffset)

\* The loop `for i := range entry.MipMaps { writeMipMap }`.
RECURSIVE writeMipMaps(_, _)
writeMipMaps(mips, i) ==
    IF i > Len(mips) THEN <<>> ELSE writeMipMap(mips[i]) \o writeMipMaps(mips, i + 1)

\* The mip-count field and the mip-count-copy field writeTextureEntry emits.
writeMipCount(entry) == writeU32(entry.MipMapCount)
writeMipCountCopy(entry) == writeU32(entry.MipMapCountCopy)

writeTextureEntry(entry) ==
    writeU32(entry.ColorPaletteCount)
    \o writeU32(entry.PalettePtr)
    \o writeF32(entry.AverageColorF[1]) \o writeF32(entry.AverageColorF[2])
    \o writeF32(entry.AverageColorF[3]) \o writeF32(entry.AverageColorF[4])
    \o entry.AverageColor
    \o entry.MaxColor
    \o writeU32(entry.ClampFlags)
    \o writeU32(entry.TransparentColor)
    \o writeBool8(entry.HasMaxCtagg)
    \o writeBool8(entry.IsAlpha)
    \o writeBool8(entry.IsTransparent)
    \o writeBool8(entry.IsAlphaNonOpaque)
    \o writeMipCount(entry)
    \o writeU32(entry.PaxFormat)
    \o writeBool8(entry.LittleEndian)
    \o writeBool8(entry.IsPAA)
    \o writeASCIIZ(entry.PAAFile)
    \o writeU32(entry.PaxSuffixType)
    \o writeMipCountCopy(entry)
    \o writeMipMaps(entry.MipMaps, 1)
    \o writeU32(entry.PaxFileSize)

\* The loop `for i := range f.Textures { writeTextureEntry }`.
RECURSIVE writeEntries(_, _)
writeEntries(ts, i) ==
    IF i > Len(ts) THEN <<>> ELSE writeTextureEntry(ts[i]) \o writeEntries(ts, i + 1)

\* Write's magic check: only the length of the (defaulted) magic is tested.
magicOK(magic) == Len(magic) = 4

\* Write(w, f): the bytes written to w and the error returned.
Write(f) ==
    IF f.isNil THEN [out |-> <<>>, err |-> Err("file is nil", "")] ELSE
    LET magic == IF f.Magic = <<>> THEN FileMagic ELSE f.Magic IN
    IF ~magicOK(magic) THEN [out |-> <<>>, err |-> Err("ErrInvalidMagic", "")] ELSE
    LET o1 == magic
        version == IF f.Version = U32(0) THEN SupportedVersion ELSE f.Version
    IN
    IF version # SupportedVersion
    THEN [out |-> o1, err |-> Err("ErrUnsupportedVersion", "")] ELSE
    LET o2 == o1 \o writeU32(version)
        n == intToU32Strict(Len(f.Textures))
    IN
    IF ~n.ok THEN [out |-> o2, err |-> Err("ErrTooManyTextures", "write texture count")] ELSE
    [out |-> o2 \o writeU32(n.v) \o writeEntries(f.Textures, 1), err |-> NoErr]

----------------------------------------------------------------------------
\* Inputs of the codec sessions.

\* Mip descriptor j (1-based) of the sample data: 12 bytes on disk.
SampleMip(j) ==
    [Width |-> 1024 \div j, Height |-> 512 \div j, AlwaysZero |-> 0, PaxFormat |-> 6,
     AlwaysThree |-> 3, DataOffset |-> [hi |-> j - 1, lo |-> 300 * j]]
SampleMips(n) == [j \in 1..n |-> SampleMip(j)]

\* A texture entry as a caller may hold it: stored counts mc / mcc, n mip
\* descriptors, the four alpha booleans b, path p.
ModelEntry(b, mc, mcc, n, p) ==
    [ColorPaletteCount |-> U32(1),
     PalettePtr        |-> U32(0),
     AverageColorF     |-> << Float32frombits([hi |-> 16256, lo |-> 0]),
                              Float32frombits([hi |-> 16128, lo |-> 32897]),
                              Float32frombits([hi |-> 0, lo |-> 0]),
                              Float32frombits([hi |-> 49024, lo |-> 1]) >>,
     AverageColor      |-> <<0, 128, 255, 7>>,
     MaxColor          |-> <<255, 255, 255, 255>>,
     ClampFlags        |-> U32(0),
     TransparentColor  |-> MaxUint32,
     HasMaxCtagg       |-> b,
     IsAlpha           |-> TRUE,
     IsTransparent     |-> FALSE,
     IsAlphaNonOpaque  |-> b,
     MipMapCount       |-> U32(mc),
     PaxFormat         |-> U32(6),
     LittleEndian      |-> TRUE,
     IsPAA             |-> TRUE,
     PAAFile           |-> p,
     PaxSuffixType     |-> U32(258),
     MipMapCountCopy   |-> U32(mcc),
     MipMaps           |-> SampleMips(n),
     PaxFileSize       |-> [hi |-> 2, lo |-> 4660]]

\* The bytes of one entry of an input buffer: as ModelEntry, with the two
\* boolean bytes has_max_ctagg and is_alpha_non_opaque set to the byte bb.
RawEntryBytes(bb, mc, mcc, n, p) ==
    LET e == ModelEntry(TRUE, mc, mcc, n, p) IN
    PutUint32(e.ColorPaletteCount) \o PutUint32(e.PalettePtr)
    \o PutUint32([hi |-> 16256, lo |-> 0]) \o PutUint32([hi |-> 16128, lo |-> 32897])
    \o PutUint32([hi |-> 0, lo |-> 0]) \o PutUint32([hi |-> 49024, lo |-> 1])
    \o e.AverageColor \o e.MaxColor
    \o PutUint32(e.ClampFlags) \o PutUint32(e.TransparentColor)
    \o <<bb, 1, 0, bb>>
    \o PutUint32(e.MipMapCount) \o PutUint32(e.PaxFormat)
    \o <<1, 1>>
    \o p \o <<0>>
    \o PutUint32(e.PaxSuffixType) \o PutUint32(e.MipMapCountCopy)
    \o writeMipMaps(e.MipMaps, 1)
    \o PutUint32(e.PaxFileSize)

\* Path byte strings of the sample data: "", "a", "a\b".
SamplePaths == { <<>>, <<97>>, <<97, 92, 98>> }
\* Values a boolean byte of a buffer may carry.
BoolBytes == {0, 1, 2}

\* Entries of input buffers: the base entry varied one field group at a time.
RawEntryPool ==
    { RawEntryBytes(bb, 1, 1, 1, <<97>>) : bb \in BoolBytes }
    \cup { RawEntryBytes(1, n + d, n, n, <<97>>) : n \in 0..MaxMips, d \in {0, 1} }
    \cup { RawEntryBytes(1, 1, 1, 1, p) : p \in SamplePaths }

\* Entries of caller-made Files: stored counts that agree or disagree with
\* the number of mip descriptors.
ModelEntryPool ==
    { ModelEntry(b, 1, 1, 1, <<97>>) : b \in BOOLEAN }
    \cup { ModelEntry(TRUE, n + d, n + dd, n, <<97, 92, 98>>) :
             n \in 0..MaxMips, d \in {0, 1}, dd \in {0, 1} }
    \cup { ModelEntry(TRUE, n, n - 1, n, <<97, 92, 98>>) : n \in 1..MaxMips }

RECURSIVE Concat(_, _)
Concat(chunks, i) == IF i > Len(chunks) THEN <<>> ELSE chunks[i] \o Concat(chunks, i + 1)

SeqsUpTo(S, n) == UNION { [1..k -> S] : k \in 0..n }

\* Input buffers: magic, version, count, that many entries; the last `cut`
\* bytes missing.
Magics == { FileMagic, <<88, 68, 72, 84>> }
Buffers ==
    { LET b == m \o PutUint32(U32(v)) \o PutUint32(U32(Len(es))) \o Concat(es, 1)
      IN SubSeq(b, 1, Len(b) - cut) :
        m \in Magics, v \in {1, 2}, es \in SeqsUpTo(RawEntryPool, MaxTextures),
        cut \in {0, 1, 5} }

\* Files a caller hands to Write.
MadeFiles ==
    { NilFile }
    \cup { MkFile(m, U32(v), ts) :
             m \in Magics \cup { <<>>, <<48, 68>> }, v \in {0, 1, 2},
             ts \in SeqsUpTo(ModelEntryPool, MaxTextures) }

----------------------------------------------------------------------------
\* Validator.  The error ValidateFile / ValidateEntry return is the sequence
\* of the issues errors.Join joins, in order, nested joins flattened; the
\* empty sequence is the nil error.  An issue is [check, entry, mip]: the
\* check that failed and the indices its message names (-1: none).

Issue(check, entry, mip) == [check |-> check, entry |-> entry, mip |-> mip]
\* An append that keeps the first issue only.
AppendIfFirst(iss, cond, issue) == IF cond /\ iss = <<>> THEN Append(iss, issue) ELSE iss
\* if cond { issues = append(issues, ...) }
AppendIf(iss, cond, issue) == IF cond THEN Append(iss, issue) ELSE iss

\* No pure helper has been called.
NoCall == [fn |-> "none", arg |-> <<>>, rule |-> 0, res |-> [value |-> 0, ok |-> FALSE]]
\* No Validate call has been made.
NoValidate == [call |-> "none", index |-> -1, err |-> <<>>]

\* A running offset that never moves backward.
keepMaxOffset(prev, m) == IF U32Lt(m.DataOffset, prev) THEN prev ELSE m.DataOffset
\* prevOffset = m.DataOffset
nextPrevOffset(prev, m) == m.DataOffset

\* The checks of one mip, in order.
validateMip(entry, idx, i, m, prev, iss) ==
    AppendIf(AppendIf(AppendIf(AppendIf(AppendIf(iss,
        m.Width = 0 \/ m.Height = 0, Issue("zero dimension", idx, i)),
        m.AlwaysZero # 0, Issue("always_zero", idx, i)),
        m.AlwaysThree # 3, Issue("always_three", idx, i)),
        ~U32Lt(U32(255), entry.PaxFormat) /\ U32(m.PaxFormat) # entry.PaxFormat,
            Issue("mip pax_format", idx, i)),
        i > 0 /\ U32Lt(m.DataOffset, prev), Issue("data_offset", idx, i))

\* for i := range entry.MipMaps, i counted from 0.
RECURSIVE validateMips(_, _, _, _, _)
validateMips(entry, idx, i, prev, iss) ==
    IF i >= Len(entry.MipMaps) THEN iss
    ELSE validateMips(entry, idx, i + 1, nextPrevOffset(prev, entry.MipMaps[i + 1]),
                      validateMip(entry, idx, i, entry.MipMaps[i + 1], prev, iss))

\* Count checks that compare the two stored counts with each other only.
validateCountsStoredOnly(entry, idx, iss) ==
    AppendIf(iss, entry.MipMapCount # entry.MipMapCountCopy,
             Issue("mipmap_count/copy", idx, -1))
\* The count checks of ValidateEntry, in order (len(entry.MipMaps) always
\* fits uint32 here, so the out-of-range issue cannot arise).
validateCounts(entry, idx, iss) ==
    LET mipLen == intToU32Strict(Len(entry.MipMaps)).v IN
    AppendIf(AppendIf(AppendIf(iss,
        entry.MipMapCount # mipLen, Issue("mipmap_count/len", idx, -1)),
        entry.MipMapCountCopy # mipLen, Issue("mipmap_count_copy/len", idx, -1)),
        entry.MipMapCount # entry.MipMapCountCopy, Issue("mipmap_count/copy", idx, -1))

\* ValidateEntry(entry, entryIndex) for a non-nil entry.
ValidateEntry(entry, idx) ==
    validateMips(entry, idx, 0, U32(0),
        validateCounts(entry, idx,
            AppendIf(AppendIf(<<>>,
                entry.PAAFile = <<>>, Issue("paa_file empty", idx, -1)),
                U32Lt(U32(255), entry.PaxFormat), Issue("pax_format range", idx, -1))))
\* ValidateEntry(nil, entryIndex)
ValidateEntryNil(idx) == << Issue("entry is nil", idx, -1) >>

\* for i := range f.Textures { ... ValidateEntry(&f.Textures[i], i) ... }
RECURSIVE validateEntries(_, _, _)
validateEntries(f, i, iss) ==
    IF i >= Len(f.Textures) THEN iss
    ELSE validateEntries(f, i + 1, iss \o ValidateEntry(f.Textures[i + 1], i))

\* ValidateFile(f); len(f.Textures) > math.MaxUint32 cannot arise here.
ValidateFile(f) ==
    IF f.isNil THEN << Issue("file is nil", -1, -1) >>
    ELSE validateEntries(f, 0,
            AppendIf(AppendIf(<<>>,
                f.Magic # <<>> /\ f.Magic # FileMagic, Issue("magic", -1, -1)),
                f.Version # U32(0) /\ f.Version # SupportedVersion,
                    Issue("version", -1, -1)))

----------------------------------------------------------------------------
\* Strings of the builder: a path is the sequence of its bytes.

\* strings.ToLower on ASCII.
lowerByte(c) == IF c >= 65 /\ c <= 90 THEN c + 32 ELSE c
ToLower(str) == [i \in 1..Len(str) |-> lowerByte(str[i])]

\* Go's string order (a < b), byte by byte, a proper prefix first.
RECURSIVE StrLess(_, _)
StrLess(a, b) ==
    IF b = <<>> THEN FALSE
    ELSE IF a = <<>> THEN TRUE
    ELSE IF a[1] # b[1] THEN a[1] < b[1]
    ELSE StrLess(Tail(a), Tail(b))

\* strings.TrimSpace(path) == "": every byte is white space.
isSpace(c) == c \in {9, 10, 11, 12, 13, 32}
TrimmedEmpty(str) == \A i \in 1..Len(str) : isSpace(str[i])

HasPrefix(str, pre) == Len(str) >= Len(pre) /\ SubSeq(str, 1, Len(pre)) = pre
TrimPrefix(str, pre) ==
    IF HasPrefix(str, pre) THEN SubSeq(str, Len(pre) + 1, Len(str)) ELSE str

\* strings.LastIndexByte(s, c), 0-based, -1 when absent.
RECURSIVE lastIndexFrom(_, _, _)
lastIndexFrom(str, c, i) ==
    IF i = 0 THEN -1 ELSE IF str[i] = c THEN i - 1 ELSE lastIndexFrom(str, c, i - 1)
LastIndexByte(str, c) == lastIndexFrom(str, c, Len(str))

\* filepath.Ext: the suffix from the last '.' of the last path element.
RECURSIVE extFrom(_, _)
extFrom(str, i) ==
    IF i = 0 \/ str[i] = 47 THEN <<>>
    ELSE IF str[i] = 46 THEN SubSeq(str, i, Len(str))
    ELSE extFrom(str, i - 1)
Ext(str) == extFrom(str, Len(str))

\* strings.ReplaceAll(rel, "/", "\\")
ReplaceSlashes(str) == [i \in 1..Len(str) |-> IF str[i] = 47 THEN 92 ELSE str[i]]

----------------------------------------------------------------------------
\* Suffix classifier.

SuffixDiffuseSRGB == 0
SuffixDiffuseLinear == 1
SuffixDetailLinear == 2
SuffixNormalMap == 3
SuffixIrradianceMap == 4
SuffixRandom05To1 == 5
SuffixTreeCrownCalc == 6
SuffixMacroObjectSRGB == 7
SuffixAmbientShadow == 8
SuffixSpecularAmount == 9
SuffixDitherTexture == 10
SuffixDetailSpecularAmount == 11
SuffixMultiShaderMask == 12
SuffixThermalImageTextureCA == 13

Rule(token, value) == [token |-> token, value |-> value]
suffixGuessRules ==
    <<
       Rule(<<95, 110, 111, 104, 113, 95, 97, 108, 112, 104, 97>>, SuffixDiffuseSRGB),  \* "_nohq_alpha"
       Rule(<<95, 100, 116, 115, 109, 100, 105>>, SuffixDetailSpecularAmount),  \* "_dtsmdi"
       Rule(<<95, 116, 105, 95, 99, 97>>, SuffixThermalImageTextureCA),  \* "_ti_ca"
       Rule(<<95, 115, 109, 100, 105>>, SuffixSpecularAmount),  \* "_smdi"
       Rule(<<95, 100, 101, 116, 97, 105, 108>>, SuffixDetailLinear),  \* "_detail"
       Rule(<<95, 110, 111, 114, 109, 97, 108, 109, 97, 112>>, SuffixNormalMap),  \* "_normalmap"
       Rule(<<95, 110, 111, 104, 113>>, SuffixNormalMap),  \* "_nohq"
       Rule(<<95, 110, 111, 118, 104, 113>>, SuffixNormalMap),  \* "_novhq"
       Rule(<<95, 110, 111, 102, 104, 113>>, SuffixNormalMap),  \* "_nofhq"
       Rule(<<95, 110, 111, 102, 101, 120>>, SuffixNormalMap),  \* "_nofex"
       Rule(<<95, 110, 111, 101, 120>>, SuffixNormalMap),  \* "_noex"
       Rule(<<95, 110, 115, 101, 120>>, SuffixNormalMap),  \* "_nsex"
       Rule(<<95, 110, 115, 104, 113>>, SuffixNormalMap),  \* "_nshq"
       Rule(<<95, 110, 111, 112, 120>>, SuffixNormalMap),  \* "_nopx"
       Rule(<<95, 110, 111, 110>>, SuffixNormalMap),  \* "_non"
       Rule(<<95, 110, 111, 102>>, SuffixNormalMap),  \* "_nof"
       Rule(<<95, 110, 115, 101>>, SuffixNormalMap),  \* "_nse"
       Rule(<<95, 110, 115>>, SuffixNormalMap),  \* "_ns"
       Rule(<<95, 110, 111>>, SuffixNormalMap),  \* "_no"
       Rule(<<95, 109, 97, 115, 107>>, SuffixMultiShaderMask),  \* "_mask"
       Rule(<<95, 115, 107, 121>>, SuffixDiffuseLinear),  \* "_sky"
       Rule(<<95, 108, 99, 111>>, SuffixDiffuseLinear),  \* "_lco"
       Rule(<<95, 100, 120, 116, 53>>, SuffixDiffuseLinear),  \* "_dxt5"
       Rule(<<95, 109, 99, 111>>, SuffixDetailLinear),  \* "_mco"
       Rule(<<95, 99, 100, 116>>, SuffixDetailLinear),  \* "_cdt"
       Rule(<<95, 100, 116>>, SuffixDetailLinear),  \* "_dt"
       Rule(<<95, 109, 99>>, SuffixMacroObjectSRGB),  \* "_mc"
       Rule(<<95, 97, 115>>, SuffixAmbientShadow),  \* "_as"
       Rule(<<95, 115, 109>>, SuffixSpecularAmount),  \* "_sm"
       Rule(<<95, 99, 97>>, SuffixDiffuseSRGB),  \* "_ca"
       Rule(<<95, 99, 111>>, SuffixDiffuseSRGB)   \* "_co"
    >>

\* The byte after a token occurrence must be '_', '-' or '.'.
isSeparator(ch) == ch = 95 \/ ch = 45 \/ ch = 46

\* strings.Index(s[from:], token), 0-based from `from`, -1 when absent.
RECURSIVE indexFrom(_, _, _)
indexFrom(str, token, from) ==
    IF from + Len(token) > Len(str) THEN -1
    ELSE IF SubSeq(str, from + 1, from + Len(token)) = token THEN from
    ELSE indexFrom(str, token, from + 1)

\* A scan that judges the first occurrence of the token only.
containsTokenFirstOnly(str, token, from) ==
    \E pos \in {indexFrom(str, token, from)} :
        IF pos < 0 THEN FALSE
        ELSE IF pos + Len(token) >= Len(str) THEN TRUE
        ELSE isSeparator(str[pos + Len(token) + 1])
\* containsTokenBoundary(s, token); from, pos, next are 0-based as in the code.
RECURSIVE containsTokenBoundaryFrom(_, _, _)
containsTokenBoundaryFrom(str, token, from) ==
    \E pos \in {indexFrom(str, token, from)} :
        IF pos < 0 THEN FALSE
        ELSE IF pos + Len(token) >= Len(str) THEN TRUE
        ELSE IF isSeparator(str[pos + Len(token) + 1]) THEN TRUE
        ELSE containsTokenBoundaryFrom(str, token, pos + 1)
containsTokenBoundary(str, token) == containsTokenBoundaryFrom(str, token, 0)

\* A cut at every last '.', the first byte included.
stripExtAlways(str) ==
    IF LastIndexByte(str, 46) >= 0 THEN SubSeq(str, 1, LastIndexByte(str, 46)) ELSE str
\* The lowercased path with its extension cut (only when dot > 0).
stripExt(str) ==
    IF LastIndexByte(str, 46) > 0 THEN SubSeq(str, 1, LastIndexByte(str, 46)) ELSE str

\* A scan of the table that keeps the last matching rule.
RECURSIVE lastRule(_, _)
lastRule(str, k) ==
    IF k > Len(suffixGuessRules) THEN [value |-> SuffixDiffuseSRGB, ok |-> FALSE]
    ELSE Bind(lastRule(str, k + 1), LAMBDA r :
            IF r.ok THEN r
            ELSE IF containsTokenBoundary(str, suffixGuessRules[k].token)
                 THEN [value |-> suffixGuessRules[k].value, ok |-> TRUE]
                 ELSE r)
RECURSIVE firstRule(_, _)
firstRule(str, k) ==
    IF k > Len(suffixGuessRules) THEN [value |-> SuffixDiffuseSRGB, ok |-> FALSE]
    ELSE IF containsTokenBoundary(str, suffixGuessRules[k].token)
         THEN [value |-> suffixGuessRules[k].value, ok |-> TRUE]
         ELSE firstRule(str, k + 1)

GuessSuffixTypeFromPath(path) == firstRule(stripExt(ToLower(path)), 1)

----------------------------------------------------------------------------
\* Builder: errors, options, the environment (file system and the paa
\* metadata provider), and the pure parts of Build.

WorkersAuto == -1

\* A nil error, an error of buildEntry, and Build's fmt.Errorf("build %q: %w").
NoBErr == [cause |-> "nil", path |-> <<>>, input |-> <<>>]
BErr(cause, path) == [cause |-> cause, path |-> path, input |-> <<>>]
WrapBuild(in, e) == [e EXCEPT !.input = in]
\* err.Error(): the message an issue records.
ErrorString(e) == <<e.cause, e.path>>
BuildIssue(in, e) == [Path |-> in, Error |-> ErrorString(e)]

\* NewBuilder: both path options are switched on whatever the caller passed.
NewBuilder(o) ==
    [o EXCEPT !.LowercasePaths = IF ~o.LowercasePaths THEN TRUE ELSE o.LowercasePaths,
              !.BackslashPaths = IF ~o.BackslashPaths THEN TRUE ELSE o.BackslashPaths]

\* An update that compares the new path with the first input.
appendSortedFirst(ins, sorted, path) ==
    IF sorted /\ Len(ins) > 0 /\ StrLess(path, ins[1]) THEN FALSE ELSE sorted
\* An update that leaves b.inputsSorted as it is.
appendSortedKeep(ins, sorted, path) == sorted
\* Append's update of b.inputsSorted.
appendSorted(ins, sorted, path) ==
    IF sorted /\ Len(ins) > 0 /\ StrLess(path, ins[Len(ins)]) THEN FALSE ELSE sorted

\* sort.Strings: the sorted arrangement of the strings.
RECURSIVE insertSorted(_, _)
insertSorted(sq, x) ==
    IF sq = <<>> THEN <<x>>
    ELSE IF StrLess(x, sq[1]) THEN <<x>> \o sq
    ELSE <<sq[1]>> \o insertSorted(Tail(sq), x)
RECURSIVE SortStrings(_)
SortStrings(sq) ==
    IF sq = <<>> THEN <<>> ELSE insertSorted(SortStrings(SubSeq(sq, 1, Len(sq) - 1)), sq[Len(sq)])

\* paa.PaxType values of the metadata provider, an external package whose
\* numbering is not part of this repository; the model numbers the types as
\* the on-disk format codes are numbered.
PaxGRAYA == 1
PaxARGBA5 == 3
PaxARGB4 == 4
PaxARGB8 == 5
PaxDXT1 == 6
PaxDXT2 == 7
PaxDXT3 == 8
PaxDXT4 == 9
PaxDXT5 == 10

\* A mapping that lets every code through, cut to a byte.
paxTypeToU8Any(t) == [ok |-> TRUE, v |-> t % 256]
\* paxTypeToU8: the on-disk code of a provider type, or an error.
paxTypeToU8(t) ==
    IF t = PaxGRAYA THEN [ok |-> TRUE, v |-> 1]
    ELSE IF t = PaxARGBA5 THEN [ok |-> TRUE, v |-> 3]
    ELSE IF t = PaxARGB4 THEN [ok |-> TRUE, v |-> 4]
    ELSE IF t = PaxARGB8 THEN [ok |-> TRUE, v |-> 5]
    ELSE IF t = PaxDXT1 THEN [ok |-> TRUE, v |-> 6]
    ELSE IF t = PaxDXT2 THEN [ok |-> TRUE, v |-> 7]
    ELSE IF t = PaxDXT3 THEN [ok |-> TRUE, v |-> 8]
    ELSE IF t = PaxDXT4 THEN [ok |-> TRUE, v |-> 9]
    ELSE IF t = PaxDXT5 THEN [ok |-> TRUE, v |-> 10]
    ELSE [ok |-> FALSE, v |-> 0]

\* The paths of the model: "A.txt", "B.paa", "a.paa", "b.pac".
PathATxt == <<65, 46, 116, 120, 116>>
PathBPaa == <<66, 46, 112, 97, 97>>
PathAPaa == <<97, 46, 112, 97, 97>>
PathBPac == <<98, 46, 112, 97, 99>>
InputPaths == { PathATxt, PathBPaa, PathAPaa, PathBPac }
\* What callers may pass to Append: the paths and the blank path " ".
AppendArgs == InputPaths \cup { <<32>> }

\* The type codes a decoded texture may carry: the nine of the table and
\* three outside it.
ProviderTypes ==
    { PaxGRAYA, PaxARGBA5, PaxARGB4, PaxARGB8, PaxDXT1, PaxDXT2, PaxDXT3, PaxDXT4,
      PaxDXT5 } \cup { 0, 2, 300 }
\* "tNNN.paa", the texture of type code NNN.
TypedPath(t) ==
    <<116, 48 + ((t \div 100) % 10), 48 + ((t \div 10) % 10), 48 + (t % 10),
      46, 112, 97, 97>>
\* One texture of every type code, with two mips.
TypedFiles ==
    { [path |-> TypedPath(t), size |-> 1000 + t,
       meta |-> [Type |-> t, HasAverageColor |-> FALSE,
                 AverageColor |-> <<0, 0, 0, 0>>,
                 HasMaxColor |-> FALSE, MaxColor |-> <<0, 0, 0, 0>>,
                 HasGALF |-> FALSE, GALF |-> 0,
                 MipHeaders |-> << [Width |-> 4, Height |-> 4, Offset |-> U32(64)],
                                   [Width |-> 2, Height |-> 2, Offset |-> U32(96)] >>]] :
      t \in ProviderTypes }

\* The file system and paa.DecodeMetadataHeaders: the files that exist, their
\* sizes and their metadata headers.
SourceFiles ==
    TypedFiles \cup
    { [path |-> PathBPaa, size |-> 4660,
       meta |-> [Type |-> PaxDXT5, HasAverageColor |-> TRUE,
                 AverageColor |-> <<255, 0, 0, 0>>,
                 HasMaxColor |-> TRUE, MaxColor |-> <<255, 255, 0, 255>>,
                 HasGALF |-> TRUE, GALF |-> 1,
                 MipHeaders |-> << [Width |-> 8, Height |-> 4, Offset |-> U32(128)],
                                   [Width |-> 4, Height |-> 2, Offset |-> U32(160)] >>]],
      [path |-> PathAPaa, size |-> 300,
       meta |-> [Type |-> PaxDXT1, HasAverageColor |-> FALSE,
                 AverageColor |-> <<0, 0, 0, 0>>,
                 HasMaxColor |-> FALSE, MaxColor |-> <<0, 0, 0, 0>>,
                 HasGALF |-> FALSE, GALF |-> 0,
                 MipHeaders |-> << [Width |-> 2, Height |-> 2, Offset |-> U32(64)] >>]] }
FileExists(path) == \E f \in SourceFiles : f.path = path
SourceFile(path) == CHOOSE f \in SourceFiles : f.path = path

\* float32(b) / 255.0 for the channel bytes of the sample metadata (0, 255).
UnitFloat(b) ==
    IF b = 255 THEN Float32frombits([hi |-> 16256, lo |-> 0])
    ELSE Float32frombits([hi |-> 0, lo |-> 0])

\* var entry TextureEntry
ZeroEntry ==
    [ColorPaletteCount |-> U32(0), PalettePtr |-> U32(0),
     AverageColorF |-> [i \in 1..4 |-> Float32frombits(U32(0))],
     AverageColor |-> <<0, 0, 0, 0>>, MaxColor |-> <<0, 0, 0, 0>>,
     ClampFlags |-> U32(0), TransparentColor |-> U32(0),
     HasMaxCtagg |-> FALSE, IsAlpha |-> FALSE, IsTransparent |-> FALSE,
     IsAlphaNonOpaque |-> FALSE, MipMapCount |-> U32(0), PaxFormat |-> U32(0),
     LittleEndian |-> FALSE, IsPAA |-> FALSE, PAAFile |-> <<>>,
     PaxSuffixType |-> U32(0), MipMapCountCopy |-> U32(0), MipMaps |-> <<>>,
     PaxFileSize |-> U32(0)]

\* filepath.Clean on the paths of the model, which are clean but for a
\* leading "./".
filepathClean(in) == TrimPrefix(in, <<46, 47>>)

\* normalizePath with an empty BaseDir and relative inputs.
normalizePath(o, in) ==
    LET rel == filepathClean(in)
        flipped == IF o.BackslashPaths THEN ReplaceSlashes(rel) ELSE rel
        trimmed == TrimPrefix(flipped, <<46, 92>>)
    IN IF o.LowercasePaths THEN ToLower(trimmed) ELSE trimmed

\* resolveSuffixType: the override map first, the classifier otherwise.
resolveSuffixType(o, rel) ==
    LET key == IF o.LowercasePaths THEN ToLower(rel) ELSE rel IN
    IF key \in DOMAIN o.SuffixOverrides
    THEN o.SuffixOverrides[key]
    ELSE U32(GuessSuffixTypeFromPath(rel).value)

assignColorHeaders(entry, meta) ==
    LET avg == IF meta.HasAverageColor THEN meta.AverageColor ELSE entry.AverageColor IN
    [entry EXCEPT
       !.AverageColor = avg,
       !.MaxColor = IF meta.HasMaxColor THEN meta.MaxColor ELSE <<255, 255, 255, 255>>,
       !.HasMaxCtagg = meta.HasMaxColor,
       !.AverageColorF = << UnitFloat(avg[3]), UnitFloat(avg[2]),
                            UnitFloat(avg[1]), UnitFloat(avg[4]) >>]

assignFlagHeaders(entry, meta) ==
    IF ~meta.HasGALF
    THEN [entry EXCEPT !.IsAlpha = FALSE, !.IsTransparent = FALSE,
                       !.IsAlphaNonOpaque = FALSE]
    ELSE [entry EXCEPT
            !.IsAlpha = (meta.GALF % 2) # 0,
            !.IsTransparent = ((meta.GALF \div 2) % 2) # 0,
            !.IsAlphaNonOpaque = ((meta.GALF % 2) # 0) /\ entry.AverageColor[4] < 128]

assignMipmaps(entry, mips, paxFormat) ==
    [entry EXCEPT
       !.MipMaps = [i \in 1..Len(mips) |->
                      [Width |-> mips[i].Width, Height |-> mips[i].Height,
                       AlwaysZero |-> 0, PaxFormat |-> paxFormat, AlwaysThree |-> 3,
                       DataOffset |-> mips[i].Offset]],
       !.MipMapCount = intToU32Strict(Len(mips)).v,
       !.MipMapCountCopy = intToU32Strict(Len(mips)).v]

\* buildEntry(path): (TextureEntry, error).
buildEntry(o, path) ==
    LET ext == ToLower(Ext(path))
        Fail(e) == [ok |-> FALSE, entry |-> ZeroEntry, err |-> e]
    IN
    IF ext = <<46, 112, 97, 99>> THEN Fail(BErr("ErrPACUnsupported", path)) ELSE
    IF ext # <<46, 112, 97, 97>> THEN Fail(BErr("ErrUnsupportedInputFormat", path)) ELSE
    IF ~FileExists(path) THEN Fail(BErr("open source", path)) ELSE
    Bind(SourceFile(path), LAMBDA f :
    Bind(paxTypeToU8(f.meta.Type), LAMBDA pf :
    IF ~pf.ok THEN Fail(BErr("unsupported pax format", path)) ELSE
    Bind(normalizePath(o, path), LAMBDA rel :
    Bind([ZeroEntry EXCEPT
            !.ColorPaletteCount = U32(1),
            !.PalettePtr = U32(0),
            !.ClampFlags = U32(0),
            !.TransparentColor = MaxUint32,
            !.LittleEndian = TRUE,
            !.IsPAA = (ToLower(ext) = <<46, 112, 97, 97>>),
            !.PAAFile = rel,
            !.PaxFormat = U32(f.meta.Type),
            !.PaxSuffixType = resolveSuffixType(o, rel),
            !.PaxFileSize = U32(f.size)], LAMBDA e0 :
    Bind(assignColorHeaders(e0, f.meta), LAMBDA e1 :
    Bind(assignFlagHeaders(e1, f.meta), LAMBDA e2 :
    [ok |-> TRUE, entry |-> assignMipmaps(e2, f.meta.MipHeaders, pf.v),
     err |-> NoBErr]))))))

\* floorPow2, autoBuildWorkers (procs is runtime.GOMAXPROCS(0)) and
\* resolveBuildWorkers.
RECURSIVE floorPow2From(_, _)
floorPow2From(p, v) == IF 2 * p <= v THEN floorPow2From(2 * p, v) ELSE p
floorPow2(v) == IF v <= 1 THEN 1 ELSE floorPow2From(1, v)
Max(a, b) == IF a > b THEN a ELSE b
Min(a, b) == IF a < b THEN a ELSE b
\* A candidate that is not capped at the file count.
autoBuildWorkersUncapped(procs, fileCount) == floorPow2(Max(procs \div 4, 2))
autoBuildWorkers(procs, fileCount) == floorPow2(Min(Max(procs \div 4, 2), fileCount))
resolveBuildWorkers(procs, requested, fileCount) ==
    IF fileCount <= 1 THEN 1
    ELSE IF requested = WorkersAuto THEN autoBuildWorkers(procs, fileCount)
    ELSE IF requested <= 1 THEN 1
    ELSE Min(requested, fileCount)

----------------------------------------------------------------------------
\* Build's loops and the channel.

\* A skip that records no issue.
appendIssueDrop(iss, in, e) == iss
\* b.issues = append(b.issues, BuildIssue{Path: in, Error: err.Error()})
appendIssue(iss, in, e) == Append(iss, BuildIssue(in, e))

\* A failure that hands back the File assembled so far.
failFastPartial(f, iss, in, e) == [file |-> f, err |-> WrapBuild(in, e), issues |-> iss]
\* return nil, fmt.Errorf("build %q: %w", in, err)
failFast(f, iss, in, e) == [file |-> NilFile, err |-> WrapBuild(in, e), issues |-> iss]

\* A serial loop that, in strict mode, calls buildEntry on the inputs after
\* the failing one before it returns the failure.
RECURSIVE serialLoopRunAll(_, _, _, _, _)
serialLoopRunAll(o, ins, k, f, iss) ==
    IF k > Len(ins) THEN [file |-> f, err |-> NoBErr, issues |-> iss, calls |-> k - 1]
    ELSE Bind(buildEntry(o, ins[k]), LAMBDA r :
         IF ~r.ok
         THEN IF o.SkipInvalid
              THEN serialLoopRunAll(o, ins, k + 1, f, appendIssue(iss, ins[k], r.err))
              ELSE failFast(f, iss, ins[k], r.err) @@ [calls |-> Len(ins)]
         ELSE serialLoopRunAll(o, ins, k + 1,
                               [f EXCEPT !.Textures = Append(@, r.entry)], iss))
\* The serial loop over b.inputs[k..], file.Textures and b.issues so far;
\* calls is the number of inputs buildEntry was called on.
RECURSIVE serialLoop(_, _, _, _, _)
serialLoop(o, ins, k, f, iss) ==
    IF k > Len(ins) THEN [file |-> f, err |-> NoBErr, issues |-> iss, calls |-> k - 1]
    ELSE Bind(buildEntry(o, ins[k]), LAMBDA r :
         IF ~r.ok
         THEN IF o.SkipInvalid
              THEN serialLoop(o, ins, k + 1, f, appendIssue(iss, ins[k], r.err))
              ELSE failFast(f, iss, ins[k], r.err) @@ [calls |-> k]
         ELSE serialLoop(o, ins, k + 1,
                         [f EXCEPT !.Textures = Append(@, r.entry)], iss))

\* The collecting loop over the result slots after wg.Wait().
RECURSIVE collectLoop(_, _, _, _, _, _, _)
collectLoop(o, ins, es, ers, k, f, iss) ==
    IF k > Len(ins) THEN [file |-> f, err |-> NoBErr, issues |-> iss]
    ELSE IF ers[k] = NoBErr
         THEN collectLoop(o, ins, es, ers, k + 1,
                          [f EXCEPT !.Textures = Append(@, es[k])], iss)
         ELSE IF o.SkipInvalid
              THEN collectLoop(o, ins, es, ers, k + 1, f,
                               appendIssue(iss, ins[k], ers[k]))
              ELSE failFast(f, iss, ins[k], ers[k])

\* file := &File{Magic: FileMagic, Version: SupportedVersion, Textures: ...}
NewFile == MkFile(FileMagic, SupportedVersion, <<>>)

\* An alternative result store that fills the slots in completion order.
storeEntryNextFree(es, i, entry) ==
    [es EXCEPT ![CHOOSE k \in 1..Len(es) :
                    /\ es[k] = ZeroEntry
                    /\ \A j \in 1..(k - 1) : es[j] # ZeroEntry] = entry]
\* entries[i] = entry
storeEntry(es, i, entry) == [es EXCEPT ![i] = entry]
\* An error store that fills the slots in completion order.
storeErrNextFree(ers, i, e) ==
    [ers EXCEPT ![CHOOSE k \in 1..Len(ers) :
                     /\ ers[k] = NoBErr
                     /\ \A j \in 1..(k - 1) : ers[j] # NoBErr] = e]
\* errs[i] = err
storeErr(ers, i, e) == [ers EXCEPT ![i] = e]

\* A receive that leaves the value in the queue.
chanPeek(q) == [v |-> Head(q), rest |-> q]
\* i := <-jobs on a non-empty channel: the oldest value leaves the queue.
chanRecv(q) == [v |-> Head(q), rest |-> Tail(q)]
\* jobs <- i
chanSend(q, i) == Append(q, i)

----------------------------------------------------------------------------
\* Builder sessions: Append calls and Build calls on one Builder; a parallel
\* Build runs as the interleaving of its dispatcher and its workers.

\* runtime.GOMAXPROCS(0) of the hosts considered.
HostProcs == {1, 8, 16}

\* The options callers pass to NewBuilder.
CallerOptions ==
    { [SuffixOverrides |-> [k \in {ToLower(PathAPaa)} |-> U32(SuffixNormalMap)],
       BaseDir |-> <<>>, SkipInvalid |-> s, LowercasePaths |-> l,
       BackslashPaths |-> l, Workers |-> w] :
      s \in BOOLEAN, l \in BOOLEAN, w \in {0, MaxWorkers, WorkersAuto} }

\* History of the Builder (not program state): builtLen is the number of
\* leading appended paths a Build has passed its sort over, serialCalls the
\* number of buildEntry calls of the last serial loop, last the result of the
\* last Build that returned and prev the result of the Build before it, each
\* valid while no path has been appended since.
NoResult == [file |-> NilFile, err |-> NoBErr, issues |-> <<>>, valid |-> FALSE]
NoHist == [builtLen |-> 0, serialCalls |-> 0, last |-> NoResult, prev |-> NoResult]
\* The history after a Build returned f, e and left iss in b.issues.
histReturn(h, n, calls, f, e, iss) ==
    [builtLen |-> n, serialCalls |-> calls, prev |-> h.last,
     last |-> [file |-> f, err |-> e, issues |-> iss, valid |-> TRUE]]
\* The history after an Append that added paths.
histAppend(h) == [h EXCEPT !.last = NoResult, !.prev = NoResult, !.serialCalls = 0]

\* No Build is running: its locals do not exist.
PoolIdle ==
    /\ jobs = <<>> /\ jobsClosed = FALSE /\ nextJob = 0 /\ wg = 0
    /\ wpc = <<>> /\ whold = <<>> /\ entries = <<>> /\ errs = <<>>
PoolIdleNext ==
    /\ jobs' = <<>> /\ jobsClosed' = FALSE /\ nextJob' = 0 /\ wg' = 0
    /\ wpc' = <<>> /\ whold' = <<>> /\ entries' = <<>> /\ errs' = <<>>
HistReset == recvCount' = <<>> /\ slotWrites' = <<>>

\* The Builder of a session that only uses the codec.
BuilderUnused ==
    /\ opts = NewBuilder(CHOOSE o \in CallerOptions : ~o.SkipInvalid /\ o.Workers = 0)
    /\ inputs = <<>> /\ inputsSorted = TRUE /\ issues = <<>>
    /\ appendErr = "nil" /\ bpc = "idle" /\ bfile = NilFile /\ berr = NoBErr
    /\ PoolIdle
    /\ appended = <<>> /\ recvCount = <<>> /\ slotWrites = <<>>
    /\ buildHist = NoHist

\* The codec of a session that only uses the Builder.
CodecUnused ==
    /\ src = "file" /\ phase = "made" /\ inbuf = <<>> /\ file = NilFile
    /\ rerr = NoErr /\ out = <<>> /\ werr = NoErr
    /\ file2 = NilFile /\ rerr2 = NoErr
    /\ val = NoValidate
    /\ call = NoCall

\* b := NewBuilder(o)
InitBuild ==
    /\ \E o \in CallerOptions : opts = NewBuilder(o)
    /\ inputs = <<>> /\ inputsSorted = TRUE /\ issues = <<>>
    /\ appendErr = "nil" /\ bpc = "idle" /\ bfile = NilFile /\ berr = NoBErr
    /\ PoolIdle
    /\ appended = <<>> /\ recvCount = <<>> /\ slotWrites = <<>>
    /\ buildHist = NoHist
    /\ CodecUnused

Quiescent == bpc \in {"idle", "done"}

\* err := b.Append(path), rejected
AppendBlank(path) ==
    /\ Quiescent
    /\ TrimmedEmpty(path)
    /\ appendErr' = "ErrEmptyInputPath"
    /\ bpc' = "idle"
    /\ bfile' = NilFile /\ berr' = NoBErr
    /\ HistReset
    /\ buildHist' = [buildHist EXCEPT !.prev = NoResult, !.serialCalls = 0]
    /\ UNCHANGED <<opts, inputs, inputsSorted, issues, appended>>
    /\ UNCHANGED <<poolVars, codecVars>>

\* err := b.Append(path), accepted
AppendPath(path) ==
    /\ Quiescent
    /\ ~TrimmedEmpty(path)
    /\ Len(inputs) < MaxInputs
    /\ inputsSorted' = appendSorted(inputs, inputsSorted, path)
    /\ inputs' = Append(inputs, path)
    /\ appended' = Append(appended, path)
    /\ buildHist' = histAppend(buildHist)
    /\ appendErr' = "nil"
    /\ bpc' = "idle"
    /\ bfile' = NilFile /\ berr' = NoBErr
    /\ HistReset
    /\ UNCHANGED <<opts, issues>>
    /\ UNCHANGED <<poolVars, codecVars>>

\* A Build start that keeps the issues of earlier builds.
keepIssues(iss) == iss
\* b.issues = b.issues[:0]
resetIssues(iss) == <<>>

\* b.inputs once Build has passed its sort.
sortedInputs == IF ~inputsSorted THEN SortStrings(inputs) ELSE inputs

\* Build on an empty Builder.
BuildEmpty ==
    /\ Quiescent
    /\ Len(inputs) = 0
    /\ inputs' = sortedInputs /\ inputsSorted' = TRUE
    /\ issues' = resetIssues(issues)
    /\ bfile' = NewFile /\ berr' = NoBErr
    /\ bpc' = "done"
    /\ HistReset
    /\ buildHist' = histReturn(buildHist, 0, 0, NewFile, NoBErr, resetIssues(issues))
    /\ UNCHANGED <<opts, appendErr, appended>>
    /\ UNCHANGED <<poolVars, codecVars>>

\* Build with one effective worker: the serial loop, start to return.
BuildSerial ==
    /\ Quiescent
    /\ Len(inputs) > 0
    /\ \E procs \in HostProcs :
          resolveBuildWorkers(procs, opts.Workers, Len(inputs)) <= 1
    /\ inputs' = sortedInputs /\ inputsSorted' = TRUE
    /\ \E r \in {serialLoop(opts, sortedInputs, 1, NewFile, resetIssues(issues))} :
          /\ bfile' = r.file /\ berr' = r.err /\ issues' = r.issues
          /\ buildHist' = histReturn(buildHist, Len(inputs), r.calls,
                                     r.file, r.err, r.issues)
    /\ bpc' = "done"
    /\ HistReset
    /\ UNCHANGED <<opts, appendErr, appended>>
    /\ UNCHANGED <<poolVars, codecVars>>

\* Build with several workers, up to the start of the dispatch loop: the
\* result slots, the channel, the WaitGroup and the worker goroutines.
BuildParallel ==
    /\ Quiescent
    /\ Len(inputs) > 0
    /\ \E procs \in HostProcs :
         \E n \in {resolveBuildWorkers(procs, opts.Workers, Len(inputs))} :
            /\ n > 1
            /\ \E workers \in {Min(n, Len(inputs))} :
                  /\ wg' = workers
                  /\ wpc' = [w \in 1..workers |-> "recv"]
                  /\ whold' = [w \in 1..workers |-> 0]
    /\ inputs' = sortedInputs /\ inputsSorted' = TRUE
    /\ issues' = resetIssues(issues)
    /\ entries' = [i \in 1..Len(inputs) |-> ZeroEntry]
    /\ errs' = [i \in 1..Len(inputs) |-> NoBErr]
    /\ jobs' = <<>> /\ jobsClosed' = FALSE /\ nextJob' = 1
    /\ recvCount' = [i \in 1..Len(inputs) |-> 0]
    /\ slotWrites' = [i \in 1..Len(inputs) |-> 0]
    /\ bfile' = NilFile /\ berr' = NoBErr
    /\ buildHist' = [buildHist EXCEPT !.builtLen = Len(inputs), !.serialCalls = 0,
                                      !.prev = NoResult]
    /\ bpc' = "dispatch"
    /\ UNCHANGED <<opts, appendErr, appended>>
    /\ UNCHANGED codecVars

\* A channel one value short of the number of inputs.
jobsCapShort(n) == n - 1
\* jobs := make(chan int, len(b.inputs)): the capacity of the channel.
jobsCap(n) == n

\* jobs <- i (a send blocks while the channel is full)
Dispatch ==
    /\ bpc = "dispatch"
    /\ nextJob <= Len(inputs)
    /\ Len(jobs) < jobsCap(Len(inputs))
    /\ jobs' = chanSend(jobs, nextJob)
    /\ nextJob' = nextJob + 1
    /\ UNCHANGED <<jobsClosed, wpc, whold, entries, errs, wg>>
    /\ UNCHANGED <<builderVars, histVars, codecVars>>

\* close(jobs), then wg.Wait()
CloseJobs ==
    /\ bpc = "dispatch"
    /\ nextJob > Len(inputs)
    /\ jobsClosed' = TRUE
    /\ bpc' = "wait"
    /\ UNCHANGED <<opts, inputs, inputsSorted, issues, appendErr, bfile, berr>>
    /\ UNCHANGED <<jobs, nextJob, wpc, whold, entries, errs, wg>>
    /\ UNCHANGED <<histVars, codecVars>>

\* A worker's "for i := range jobs" receives an index.
WorkerRecv(w) ==
    /\ wpc[w] = "recv"
    /\ jobs # <<>>
    /\ \E r \in {chanRecv(jobs)} :
          /\ jobs' = r.rest
          /\ whold' = [whold EXCEPT ![w] = r.v]
          /\ recvCount' = [recvCount EXCEPT ![r.v] = @ + 1]
    /\ wpc' = [wpc EXCEPT ![w] = "build"]
    /\ UNCHANGED <<jobsClosed, nextJob, entries, errs, wg>>
    /\ UNCHANGED <<appended, slotWrites, buildHist>>
    /\ UNCHANGED <<builderVars, codecVars>>

\* The loop body: buildEntry(b.inputs[i]) and the write of its result slot.
WorkerBuild(w) ==
    /\ wpc[w] = "build"
    /\ \E r \in {buildEntry(opts, inputs[whold[w]])} :
          IF ~r.ok
          THEN errs' = storeErr(errs, whold[w], r.err) /\ UNCHANGED entries
          ELSE entries' = storeEntry(entries, whold[w], r.entry) /\ UNCHANGED errs
    /\ slotWrites' = [slotWrites EXCEPT ![whold[w]] = @ + 1]
    /\ wpc' = [wpc EXCEPT ![w] = "recv"]
    /\ whold' = [whold EXCEPT ![w] = 0]
    /\ UNCHANGED <<jobs, jobsClosed, nextJob, wg>>
    /\ UNCHANGED <<appended, recvCount, buildHist>>
    /\ UNCHANGED <<builderVars, codecVars>>

\* The range loop ends on the closed, drained channel: defer wg.Done().
WorkerExit(w) ==
    /\ wpc[w] = "recv"
    /\ jobs = <<>> /\ jobsClosed
    /\ wpc' = [wpc EXCEPT ![w] = "exit"]
    /\ wg' = wg - 1
    /\ UNCHANGED <<jobs, jobsClosed, nextJob, whold, entries, errs>>
    /\ UNCHANGED <<builderVars, histVars, codecVars>>

\* wg.Wait() returns; the collecting loop runs and Build returns.
Collect ==
    /\ bpc = "wait"
    /\ wg = 0
    /\ \E r \in {collectLoop(opts, inputs, entries, errs, 1, NewFile, issues)} :
          /\ bfile' = r.file /\ berr' = r.err /\ issues' = r.issues
          /\ buildHist' = histReturn(buildHist, Len(inputs), 0,
                                     r.file, r.err, r.issues)
    /\ bpc' = "done"
    /\ PoolIdleNext
    /\ UNCHANGED <<opts, inputs, inputsSorted, appendErr>>
    /\ UNCHANGED <<appended, recvCount, slotWrites, codecVars>>

NextBuild ==
    \/ \E path \in AppendArgs : AppendBlank(path)
    \/ \E path \in AppendArgs : AppendPath(path)
    \/ BuildEmpty
    \/ BuildSerial
    \/ BuildParallel
    \/ Dispatch
    \/ CloseJobs
    \/ \E w \in DOMAIN wpc : WorkerRecv(w)
    \/ \E w \in DOMAIN wpc : WorkerBuild(w)
    \/ \E w \in DOMAIN wpc : WorkerExit(w)
    \/ Collect

SpecBuild == InitBuild /\ [][NextBuild]_vars

\* The Go scheduler runs every goroutine that can take a step: the
\* orchestrator's sends, close and return from wg.Wait(), and each worker's
\* receive, loop body and exit. Callers are not obliged to call anything.
PoolFairness ==
    /\ WF_vars(Dispatch) /\ WF_vars(CloseJobs) /\ WF_vars(Collect)
    /\ \A w \in 1..MaxWorkers :
          /\ WF_vars(w \in DOMAIN wpc /\ WorkerRecv(w))
          /\ WF_vars(w \in DOMAIN wpc /\ WorkerBuild(w))
          /\ WF_vars(w \in DOMAIN wpc /\ WorkerExit(w))

\* Pool sessions: a Builder with Workers > 1 whose callers append a failing
\* and a building path and call Build.
PoolPaths == { PathATxt, PathAPaa }
InitPool == InitBuild /\ opts.Workers = MaxWorkers
NextPool ==
    \/ \E path \in PoolPaths : AppendPath(path)
    \/ BuildSerial
    \/ BuildParallel
    \/ Dispatch
    \/ CloseJobs
    \/ \E w \in DOMAIN wpc : WorkerRecv(w)
    \/ \E w \in DOMAIN wpc : WorkerBuild(w)
    \/ \E w \in DOMAIN wpc : WorkerExit(w)
    \/ Collect
SpecPoolFair == InitPool /\ [][NextPool]_vars /\ PoolFairness

----------------------------------------------------------------------------
\* Validation sessions: a caller holds a File and calls ValidateFile on it, or
\* ValidateEntry on its first entry with an index of its choice.

ValOffsets == { U32(3), U32(5), [hi |-> 1, lo |-> 1] }
ValMip(w, h, z, t, pf, off) ==
    [Width |-> w, Height |-> h, AlwaysZero |-> z, PaxFormat |-> pf,
     AlwaysThree |-> t, DataOffset |-> off]
GoodMip(off) == ValMip(4, 2, 0, 3, 6, off)
ValEntry(p, pf, mc, mcc, mips) ==
    [ModelEntry(TRUE, mc, mcc, 0, p) EXCEPT !.PaxFormat = U32(pf), !.MipMaps = mips]

\* Well-formed entries but for the order of their mip offsets.
OffsetEntries ==
    UNION { { ValEntry(<<97>>, 6, k, k, [i \in 1..k |-> GoodMip(o[i])]) :
                o \in [1..k -> ValOffsets] } : k \in 0..MaxValMips }
\* Entries whose stored counts agree or disagree with the mip list.
CountEntries ==
    { ValEntry(<<97>>, 6, n + d, n + dd, [i \in 1..n |-> GoodMip(U32(5))]) :
        n \in 0..1, d \in {0, 1}, dd \in {0, 1} }
    \cup { ValEntry(<<97>>, 6, 0, 0, << GoodMip(U32(5)) >>) }
\* An entry with every check violated.
AllWrongEntry ==
    ValEntry(<<>>, 300, 5, 4, << ValMip(0, 0, 1, 0, 7, U32(5)),
                                 ValMip(4, 0, 2, 4, 6, U32(3)) >>)
\* Entries with one field wrong.
FieldEntries ==
    { ValEntry(<<>>, 6, 1, 1, << GoodMip(U32(5)) >>),
      ValEntry(<<97>>, 300, 1, 1, << ValMip(4, 2, 0, 3, 44, U32(5)) >>),
      AllWrongEntry }
    \cup { ValEntry(<<97>>, 6, 1, 1, << m >>) :
             m \in { ValMip(0, 2, 0, 3, 6, U32(5)), ValMip(4, 0, 0, 3, 6, U32(5)),
                     ValMip(4, 2, 1, 3, 6, U32(5)), ValMip(4, 2, 0, 0, 6, U32(5)),
                     ValMip(4, 2, 0, 3, 7, U32(5)) } }
ValEntryPool == OffsetEntries \cup CountEntries \cup FieldEntries
ValSmallPool ==
    { ValEntry(<<97>>, 6, 2, 2, << GoodMip(U32(3)), GoodMip(U32(3)) >>),
      ValEntry(<<97>>, 6, 2, 2, << GoodMip(U32(5)), GoodMip(U32(3)) >>),
      AllWrongEntry }
\* Files handed to the validator.
ValFiles ==
    { NilFile }
    \cup { MkFile(m, U32(v), ts) :
             m \in { <<>>, FileMagic, <<88, 68, 72, 84>> }, v \in {0, 1, 2},
             ts \in SeqsUpTo(ValSmallPool, MaxTextures) }
    \cup { MkFile(FileMagic, U32(1), << e >>) : e \in ValEntryPool }
\* Indices callers pass to ValidateEntry.
EntryIndexes == {0, 1, 7}

InitValidate ==
    /\ src = "file" /\ phase = "made" /\ inbuf = <<>>
    /\ file \in ValFiles
    /\ rerr = NoErr /\ out = <<>> /\ werr = NoErr
    /\ file2 = NilFile /\ rerr2 = NoErr
    /\ val = NoValidate
    /\ call = NoCall
    /\ BuilderUnused

\* err := ValidateFile(file)
DoValidateFile ==
    /\ val.call = "none"
    /\ val' = [call |-> "ValidateFile", index |-> -1, err |-> ValidateFile(file)]
    /\ UNCHANGED <<phase, inbuf, file, rerr, out, werr, file2, rerr2, src, call>>
    /\ UNCHANGED buildVars

\* err := ValidateEntry(&file.Textures[0], idx)
DoValidateEntry ==
    /\ val.call = "none"
    /\ ~file.isNil /\ file.Textures # <<>>
    /\ \E idx \in EntryIndexes :
          val' = [call |-> "ValidateEntry", index |-> idx,
                  err |-> ValidateEntry(file.Textures[1], idx)]
    /\ UNCHANGED <<phase, inbuf, file, rerr, out, werr, file2, rerr2, src, call>>
    /\ UNCHANGED buildVars

\* err := ValidateEntry(nil, idx)
DoValidateNilEntry ==
    /\ val.call = "none"
    /\ \E idx \in EntryIndexes :
          val' = [call |-> "ValidateEntryNil", index |-> idx,
                  err |-> ValidateEntryNil(idx)]
    /\ UNCHANGED <<phase, inbuf, file, rerr, out, werr, file2, rerr2, src, call>>
    /\ UNCHANGED buildVars

NextValidate == DoValidateFile \/ DoValidateEntry \/ DoValidateNilEntry

SpecValidate == InitValidate /\ [][NextValidate]_vars

----------------------------------------------------------------------------
\* Classifier sessions: a caller holds a path and calls
\* GuessSuffixTypeFromPath on it, or containsTokenBoundary on it with a token
\* of the table.

\* '_', 'c', 'O', '.', '-'
PathBytes == { 95, 99, 79, 46, 45 }
NamedPaths ==
    {
      <<97, 95, 99, 111>>,  \* "a_co"
      <<97, 95, 99, 111, 46, 112, 97, 97>>,  \* "a_co.paa"
      <<65, 95, 67, 79, 46, 80, 65, 65>>,  \* "A_CO.PAA"
      <<97, 95, 99, 111, 95, 120>>,  \* "a_co_x"
      <<97, 95, 99, 111, 45, 120>>,  \* "a_co-x"
      <<97, 95, 99, 111, 46, 120, 46, 112, 97, 97>>,  \* "a_co.x.paa"
      <<97, 95, 99, 111, 120>>,  \* "a_cox"
      <<97, 95, 99, 111, 120, 95, 99, 111>>,  \* "a_cox_co"
      <<97, 95, 99, 111, 120, 95, 99, 111, 120>>,  \* "a_cox_cox"
      <<97, 95, 99, 111, 99, 111>>,  \* "a_coco"
      <<120, 95, 99, 111, 95, 110, 111, 104, 113>>,  \* "x_co_nohq"
      <<120, 95, 97, 115, 95, 109, 99, 46, 112, 97, 97>>,  \* "x_as_mc.paa"
      <<97, 95, 110, 111, 104, 113, 95, 97, 108, 112, 104, 97>>,  \* "a_nohq_alpha"
      <<97, 95, 110, 111, 104, 113, 95, 97, 108, 112, 104, 97, 120>>,  \* "a_nohq_alphax"
      <<97, 95, 110, 111, 104, 113, 95, 97, 108, 112, 104, 97, 95, 99, 111>>,  \* "a_nohq_alpha_co"
      <<97, 95, 116, 105, 95, 99, 97, 120>>,  \* "a_ti_cax"
      <<97, 95, 100, 116, 115, 109, 100, 105, 120, 95, 100, 116>>,  \* "a_dtsmdix_dt"
      <<97, 46, 120, 95, 99, 111>>,  \* "a.x_co"
      <<46, 95, 99, 111>>,  \* "._co"
      <<46, 97, 95, 99, 111>>,  \* ".a_co"
      <<95, 99, 111, 46>>,  \* "_co."
      <<97>>,  \* "a"
      <<>>,  \* ""
      <<46>>,  \* "."
      <<97, 46>>,  \* "a."
      <<100, 105, 114, 46, 120, 47, 97, 95, 99, 111>>,  \* "dir.x/a_co"
      <<97, 95, 99, 111, 47, 98, 46, 112, 97, 97>>,  \* "a_co/b.paa"
      <<97, 95, 97, 115, 46, 98, 95, 99, 111, 46, 112, 97, 97>>,  \* "a_as.b_co.paa"
      <<97, 95, 110, 115, 120, 95, 110, 115>>,  \* "a_nsx_ns"
      <<97, 95, 67, 79, 46, 120, 95, 110, 111, 104, 113>>,  \* "a_CO.x_nohq"
      <<100, 97, 116, 97, 47, 119, 97, 108, 108, 95, 78, 79, 72, 81, 46, 112, 97, 97>>,  \* "data/wall_NOHQ.paa"
      <<97, 95, 115, 109, 100, 105, 45, 98, 46, 112, 97, 97>>,  \* "a_smdi-b.paa"
      <<97, 95, 110, 111, 46, 112, 97, 97, 95, 99, 111>>   \* "a_no.paa_co"
    }
\* Every table token behind "x", bare and with the extension ".paa".
RulePaths ==
    UNION { { <<120>> \o suffixGuessRules[k].token,
              <<120>> \o suffixGuessRules[k].token \o <<46, 112, 97, 97>> } :
            k \in 1..Len(suffixGuessRules) }
SuffixPaths == SeqsUpTo(PathBytes, MaxPathLen) \cup NamedPaths \cup RulePaths

InitSuffix ==
    /\ src = "file" /\ phase = "made" /\ inbuf = <<>> /\ file = NilFile
    /\ rerr = NoErr /\ out = <<>> /\ werr = NoErr
    /\ file2 = NilFile /\ rerr2 = NoErr
    /\ val = NoValidate
    /\ \E p \in SuffixPaths : call = [NoCall EXCEPT !.arg = p]
    /\ BuilderUnused

\* value, ok := GuessSuffixTypeFromPath(path)
DoGuess ==
    /\ call.fn = "none"
    /\ call' = [call EXCEPT !.fn = "GuessSuffixTypeFromPath",
                            !.res = GuessSuffixTypeFromPath(call.arg)]
    /\ UNCHANGED <<phase, inbuf, file, rerr, out, werr, file2, rerr2, src, val>>
    /\ UNCHANGED buildVars

\* ok := containsTokenBoundary(s, rule.token)
DoContains ==
    /\ call.fn = "none"
    /\ \E k \in 1..Len(suffixGuessRules) :
          call' = [call EXCEPT !.fn = "containsTokenBoundary", !.rule = k,
                     !.res = [value |-> suffixGuessRules[k].value,
                              ok |-> containsTokenBoundary(call.arg, suffixGuessRules[k].token)]]
    /\ UNCHANGED <<phase, inbuf, file, rerr, out, werr, file2, rerr2, src, val>>
    /\ UNCHANGED buildVars

NextSuffix == DoGuess \/ DoContains

SpecSuffix == InitSuffix /\ [][NextSuffix]_vars

----------------------------------------------------------------------------
\* Worker-count sessions: Build on a host with procs processors resolves the
\* Workers option against the number of inputs.

InitWorkers ==
    /\ src = "file" /\ phase = "made" /\ inbuf = <<>> /\ file = NilFile
    /\ rerr = NoErr /\ out = <<>> /\ werr = NoErr
    /\ file2 = NilFile /\ rerr2 = NoErr
    /\ val = NoValidate
    /\ \E p \in 1..MaxProcs, r \in -3..MaxRequested, n \in 0..MaxFileCount :
          call = [fn |-> "none", arg |-> [procs |-> p, requested |-> r, fileCount |-> n],
                  rule |-> 0, res |-> 0]
    /\ BuilderUnused

\* workers := resolveBuildWorkers(b.opts.Workers, len(b.inputs))
DoResolveWorkers ==
    /\ call.fn = "none"
    /\ call' = [call EXCEPT !.fn = "resolveBuildWorkers",
                  !.res = resolveBuildWorkers(call.arg.procs, call.arg.requested,
                                              call.arg.fileCount)]
    /\ UNCHANGED <<phase, inbuf, file, rerr, out, werr, file2, rerr2, src, val>>
    /\ UNCHANGED buildVars

SpecWorkers == InitWorkers /\ [][DoResolveWorkers]_vars

----------------------------------------------------------------------------
\* Path sessions: a caller creates a Builder with its options and the Builder
\* computes the stored path of one input.

\* The options callers pass, each path option on or off on its own.
PathOptions ==
    { [SuffixOverrides |-> << >>, BaseDir |-> <<>>, SkipInvalid |-> s,
       LowercasePaths |-> l, BackslashPaths |-> b, Workers |-> w] :
      s \in BOOLEAN, l \in BOOLEAN, b \in BOOLEAN, w \in {0, MaxWorkers, WorkersAuto} }
\* "Dir/A.paa", "./x/B.paa", "a.paa", "dir/sub/c.paa", "D.PAA", "dir\E.paa".
PathInputs ==
    { <<68, 105, 114, 47, 65, 46, 112, 97, 97>>,
      <<46, 47, 120, 47, 66, 46, 112, 97, 97>>,
      PathAPaa,
      <<100, 105, 114, 47, 115, 117, 98, 47, 99, 46, 112, 97, 97>>,
      <<68, 46, 80, 65, 65>>,
      <<100, 105, 114, 92, 69, 46, 112, 97, 97>> }

\* b := NewBuilder(o), with a path to store
InitPath ==
    /\ src = "file" /\ phase = "made" /\ inbuf = <<>> /\ file = NilFile
    /\ rerr = NoErr /\ out = <<>> /\ werr = NoErr
    /\ file2 = NilFile /\ rerr2 = NoErr
    /\ val = NoValidate
    /\ \E o \in PathOptions, p \in PathInputs :
          /\ call = [fn |-> "none", arg |-> [opts |-> o, path |-> p], rule |-> 0,
                     res |-> <<>>]
          /\ opts = NewBuilder(o)
    /\ inputs = <<>> /\ inputsSorted = TRUE /\ issues = <<>>
    /\ appendErr = "nil" /\ bpc = "idle" /\ bfile = NilFile /\ berr = NoBErr
    /\ PoolIdle
    /\ appended = <<>> /\ recvCount = <<>> /\ slotWrites = <<>>
    /\ buildHist = NoHist

\* rel := b.normalizePath(path)
DoNormalizePath ==
    /\ call.fn = "none"
    /\ call' = [call EXCEPT !.fn = "normalizePath",
                  !.res = normalizePath(opts, call.arg.path)]
    /\ UNCHANGED <<phase, inbuf, file, rerr, out, werr, file2, rerr2, src, val>>
    /\ UNCHANGED buildVars

SpecPath == InitPath /\ [][DoNormalizePath]_vars

----------------------------------------------------------------------------
\* Entry sessions: a Builder builds the entry of one source file.

\* The paths handed to buildEntry: the textures of every type code, the
\* sample textures and paths that fail before the type is looked at.
EntryPaths == { f.path : f \in SourceFiles } \cup { PathATxt, PathBPac }

InitEntry ==
    /\ src = "file" /\ phase = "made" /\ inbuf = <<>> /\ file = NilFile
    /\ rerr = NoErr /\ out = <<>> /\ werr = NoErr
    /\ file2 = NilFile /\ rerr2 = NoErr
    /\ val = NoValidate
    /\ \E p \in EntryPaths :
          call = [fn |-> "none", arg |-> p, rule |-> 0, res |-> [value |-> 0, ok |-> FALSE]]
    /\ \E o \in CallerOptions : opts = NewBuilder(o)
    /\ inputs = <<>> /\ inputsSorted = TRUE /\ issues = <<>>
    /\ appendErr = "nil" /\ bpc = "idle" /\ bfile = NilFile /\ berr = NoBErr
    /\ PoolIdle
    /\ appended = <<>> /\ recvCount = <<>> /\ slotWrites = <<>>
    /\ buildHist = NoHist

\* entry, err := b.buildEntry(path)
DoBuildEntry ==
    /\ call.fn = "none"
    /\ call' = [call EXCEPT !.fn = "buildEntry", !.res = buildEntry(opts, call.arg)]
    /\ UNCHANGED <<phase, inbuf, file, rerr, out, werr, file2, rerr2, src, val>>
    /\ UNCHANGED buildVars

SpecEntry == InitEntry /\ [][DoBuildEntry]_vars

----------------------------------------------------------------------------
\* Append sessions: a caller registers paths with Append and AppendMany.

\* b.Append(path) on the inputs ins: the inputs, the flag and the error after.
appendOne(ins, sorted, path) ==
    IF TrimmedEmpty(path)
    THEN [inputs |-> ins, inputsSorted |-> sorted, err |-> "ErrEmptyInputPath"]
    ELSE [inputs |-> Append(ins, path),
          inputsSorted |-> appendSorted(ins, sorted, path), err |-> "nil"]

\* A loop that passes over a rejected path and goes on.
RECURSIVE appendManyContinue(_, _, _, _)
appendManyContinue(ins, sorted, paths, k) ==
    IF k > Len(paths) THEN [inputs |-> ins, inputsSorted |-> sorted, err |-> "nil"]
    ELSE Bind(appendOne(ins, sorted, paths[k]), LAMBDA r :
            IF r.err # "nil"
            THEN [appendManyContinue(ins, sorted, paths, k + 1) EXCEPT !.err = r.err]
            ELSE appendManyContinue(r.inputs, r.inputsSorted, paths, k + 1))
\* for _, path := range paths { if err := b.Append(path); err != nil { return err } }
RECURSIVE appendMany(_, _, _, _)
appendMany(ins, sorted, paths, k) ==
    IF k > Len(paths) THEN [inputs |-> ins, inputsSorted |-> sorted, err |-> "nil"]
    ELSE Bind(appendOne(ins, sorted, paths[k]), LAMBDA r :
            IF r.err # "nil" THEN r
            ELSE appendMany(r.inputs, r.inputsSorted, paths, k + 1))

\* What callers pass: two paths, the empty path, " ", "\t " and " a".
ManyArgs == { PathAPaa, PathBPaa, <<>>, <<32>>, <<9, 32>>, <<32, 97>> }

InitAppend == InitBuild

\* err := b.Append(path)
DoAppend(path) ==
    /\ Len(inputs) < MaxInputs
    /\ \E r \in {appendOne(inputs, inputsSorted, path)} :
          /\ inputs' = r.inputs /\ inputsSorted' = r.inputsSorted /\ appendErr' = r.err
          /\ appended' = appended \o SubSeq(r.inputs, Len(inputs) + 1, Len(r.inputs))
          /\ buildHist' = IF r.inputs = inputs THEN buildHist ELSE histAppend(buildHist)
    /\ call' = [fn |-> "Append", arg |-> << path >>, rule |-> 0, res |-> inputs]
    /\ bpc' = "idle" /\ bfile' = NilFile /\ berr' = NoBErr
    /\ HistReset
    /\ UNCHANGED <<opts, issues>>
    /\ UNCHANGED <<phase, inbuf, file, rerr, out, werr, file2, rerr2, src, val>>
    /\ UNCHANGED poolVars

\* err := b.AppendMany(paths...)
DoAppendMany(paths) ==
    /\ Len(inputs) + Len(paths) <= MaxInputs
    /\ \E r \in {appendMany(inputs, inputsSorted, paths, 1)} :
          /\ inputs' = r.inputs /\ inputsSorted' = r.inputsSorted /\ appendErr' = r.err
          /\ appended' = appended \o SubSeq(r.inputs, Len(inputs) + 1, Len(r.inputs))
          /\ buildHist' = IF r.inputs = inputs THEN buildHist ELSE histAppend(buildHist)
    /\ call' = [fn |-> "AppendMany", arg |-> paths, rule |-> 0, res |-> inputs]
    /\ bpc' = "idle" /\ bfile' = NilFile /\ berr' = NoBErr
    /\ HistReset
    /\ UNCHANGED <<opts, issues>>
    /\ UNCHANGED <<phase, inbuf, file, rerr, out, werr, file2, rerr2, src, val>>
    /\ UNCHANGED poolVars

NextAppend ==
    \/ \E path \in ManyArgs : DoAppend(path)
    \/ \E paths \in SeqsUpTo(ManyArgs, MaxInputs) : DoAppendMany(paths)

SpecAppend == InitAppend /\ [][NextAppend]_vars

----------------------------------------------------------------------------
\* Inputs sessions: Append, AppendMany and serial Build calls on one Builder,
\* whose caller also takes Inputs() and writes into the slice it got.

\* A slice that is b.inputs itself.
InputsAlias(ins) == [shared |-> TRUE, elems |-> ins]
\* out := make([]string, len(b.inputs)); copy(out, b.inputs): a slice with a
\* backing array of its own.
Inputs(ins) == [shared |-> FALSE, elems |-> ins]

InitInputs == InitBuild /\ opts.Workers = 0

\* got := b.Inputs()
DoInputs ==
    /\ call' = [fn |-> "Inputs", arg |-> <<>>, rule |-> 0, res |-> Inputs(inputs)]
    /\ UNCHANGED <<phase, inbuf, file, rerr, out, werr, file2, rerr2, src, val>>
    /\ UNCHANGED buildVars

\* got[i] = "x": the write reaches b.inputs when the two share their array.
MutateCopy ==
    /\ call.fn = "Inputs"
    /\ \E i \in 1..Len(call.res.elems) :
          /\ call' = [call EXCEPT !.fn = "InputsMutated", !.res.elems[i] = <<120>>]
          /\ inputs' = IF call.res.shared /\ i <= Len(inputs)
                       THEN [inputs EXCEPT ![i] = <<120>>] ELSE inputs
    /\ UNCHANGED <<opts, inputsSorted, issues, appendErr, bpc, bfile, berr>>
    /\ UNCHANGED <<phase, inbuf, file, rerr, out, werr, file2, rerr2, src, val>>
    /\ UNCHANGED <<poolVars, histVars>>

NextInputs ==
    \/ \E path \in AppendArgs : AppendBlank(path)
    \/ \E path \in AppendArgs : AppendPath(path)
    \/ \E paths \in SeqsUpTo(AppendArgs, 2) : DoAppendMany(paths)
    \/ BuildEmpty
    \/ BuildSerial
    \/ DoInputs
    \/ MutateCopy

SpecInputs == InitInputs /\ [][NextInputs]_vars

----------------------------------------------------------------------------
\* Codec sessions: Read a buffer, Write the File, Read the written bytes.

InitCodec ==
    /\ \/ /\ src = "bytes" /\ phase = "start"
          /\ inbuf \in Buffers /\ file = NilFile
       \/ /\ src = "file" /\ phase = "made"
          /\ inbuf = <<>> /\ file \in MadeFiles
    /\ rerr = NoErr /\ out = <<>> /\ werr = NoErr
    /\ file2 = NilFile /\ rerr2 = NoErr
    /\ val = NoValidate
    /\ call = NoCall
    /\ BuilderUnused

\* file, err := Read(bytes.NewReader(inbuf))
DoRead ==
    /\ phase = "start"
    /\ \E r \in {Read(inbuf)} : file' = r.file /\ rerr' = r.err
    /\ phase' = "read"
    /\ UNCHANGED <<inbuf, out, werr, file2, rerr2, src, val, call>>
    /\ UNCHANGED buildVars

\* err := Write(&out, file)
DoWrite ==
    /\ \/ phase = "made"
       \/ phase = "read" /\ rerr = NoErr
    /\ \E w \in {Write(file)} : out' = w.out /\ werr' = w.err
    /\ phase' = "written"
    /\ UNCHANGED <<inbuf, file, rerr, file2, rerr2, src, val, call>>
    /\ UNCHANGED buildVars

\* file2, err := Read(bytes.NewReader(out))
DoReRead ==
    /\ phase = "written" /\ werr = NoErr
    /\ \E r \in {Read(out)} : file2' = r.file /\ rerr2' = r.err
    /\ phase' = "reread"
    /\ UNCHANGED <<inbuf, file, rerr, out, werr, src, val, call>>
    /\ UNCHANGED buildVars

NextCodec == DoRead \/ DoWrite \/ DoReRead

SpecCodec == InitCodec /\ [][NextCodec]_vars

\* Path-reading sessions: Read a stream of entries with the stored paths ps
\* that ends after its first n bytes.

\* Stored paths: "", "a", "a\b", "ab".
StreamPaths == { <<>>, <<97>>, <<97, 92, 98>>, <<97, 98>> }
\* The whole stream of the entries with the paths ps.
PathStream(ps) ==
    FileMagic \o PutUint32(SupportedVersion) \o PutUint32(U32(Len(ps)))
    \o Concat([i \in 1..Len(ps) |-> RawEntryBytes(1, 1, 1, 1, ps[i])], 1)

InitPathRead ==
    /\ src = "bytes" /\ phase = "start" /\ file = NilFile
    /\ \E ps \in SeqsUpTo(StreamPaths, MaxTextures) :
          \E n \in 0..Len(PathStream(ps)) :
             /\ inbuf = SubSeq(PathStream(ps), 1, n)
             /\ call = [fn |-> "none", arg |-> [paths |-> ps, n |-> n], rule |-> 0,
                        res |-> [value |-> 0, ok |-> FALSE]]
    /\ rerr = NoErr /\ out = <<>> /\ werr = NoErr
    /\ file2 = NilFile /\ rerr2 = NoErr
    /\ val = NoValidate
    /\ BuilderUnused

SpecPathRead == InitPathRead /\ [][DoRead]_vars

\* Truncation sessions: Write a File, then Read a proper prefix of the
\* written bytes (raw = raw[:k]).
InitTrunc == InitCodec /\ src = "file"

\* file2, err := Read(bytes.NewReader(out[:k])), k < len(out)
DoReadTruncated ==
    /\ phase = "written" /\ werr = NoErr
    /\ \E k \in 0..(Len(out) - 1) :
          /\ inbuf' = SubSeq(out, 1, k)
          /\ \E r \in {Read(SubSeq(out, 1, k))} : file2' = r.file /\ rerr2' = r.err
    /\ phase' = "truncated"
    /\ UNCHANGED <<file, rerr, out, werr, src, val, call>>
    /\ UNCHANGED buildVars

NextTrunc == DoWrite \/ DoReadTruncated

SpecTrunc == InitTrunc /\ [][NextTrunc]_vars

----------------------------------------------------------------------------
\* Properties of the codec (checked under SpecCodec).

Written == phase \in {"written", "reread"}

\* C1: every buffer B that Read decodes without error is reproduced byte for
\* byte by Write(Read(B)).
C1_ByteRoundTrip ==
    (src = "bytes" /\ Written) => (werr = NoErr /\ out = inbuf)

\* C2: for every File F returned by Read, Write(F) succeeds and Read(Write(F))
\* returns a File equal to F in every field (magic, version, entries in
\* order, every entry field, every mip descriptor).
C2_ModelRoundTrip ==
    /\ (src = "bytes" /\ Written) => werr = NoErr
    /\ (src = "bytes" /\ phase = "reread") => (rerr2 = NoErr /\ file2 = file)

\* A decoded two-entry File, one entry read from boolean bytes 2 and one with
\* two mips, has gone through Write and Read again.
C2_Witness ==
    /\ src = "bytes" /\ phase = "reread" /\ Len(file.Textures) = 2
    /\ inbuf[12 + 41] = 2
    /\ file.Textures[1].HasMaxCtagg
    /\ Len(file.Textures[2].MipMaps) = 2
    /\ file.Textures[2].MipMapCount # file.Textures[2].MipMapCountCopy

\* C8: Write puts the fixed tag when File.Magic is empty, and for a non-empty
\* File.Magic other than the fixed tag it fails having written nothing.
C8_MagicChecked ==
    (src = "file" /\ Written /\ ~file.isNil) =>
        /\ (file.Magic = <<>> /\ Len(out) >= 4) => SubSeq(out, 1, 4) = FileMagic
        /\ (file.Magic # <<>> /\ file.Magic # FileMagic) => (werr # NoErr /\ out = <<>>)

\* The layout of what Write emitted: an entry with path p and n mip
\* descriptors takes 67 + Len(p) + 12 * n bytes, its mip count field starts
\* 44 bytes and its mip count copy field 59 + Len(p) bytes into it.
EntrySize(e) == 67 + Len(e.PAAFile) + 12 * Len(e.MipMaps)
RECURSIVE EntryStart(_, _)
EntryStart(ts, i) == IF i = 1 THEN 13 ELSE EntryStart(ts, i - 1) + EntrySize(ts[i - 1])
WrittenU32(at) == Uint32(SubSeq(out, at, at + 3))
WrittenMipCount(i) == WrittenU32(EntryStart(file.Textures, i) + 44)
WrittenMipCountCopy(i) ==
    WrittenU32(EntryStart(file.Textures, i) + 59 + Len(file.Textures[i].PAAFile))
DescriptorsFit ==
    Len(out) = EntryStart(file.Textures, Len(file.Textures) + 1) - 1

\* C9: the texture count written is len(File.Textures), and the
\* mip count fields written for an entry equal the number of mip descriptors
\* written after it (len(entry.MipMaps)), whatever the stored counts are.
C9_MipCountFromLen ==
    (Written /\ werr = NoErr) =>
        /\ WrittenU32(9) = U32(Len(file.Textures))
        /\ DescriptorsFit
        /\ \A i \in 1..Len(file.Textures) :
             /\ WrittenMipCount(i) = U32(Len(file.Textures[i].MipMaps))
             /\ WrittenMipCountCopy(i) = U32(Len(file.Textures[i].MipMaps))

\* C10: no partial output on error: when Write fails because of the File
\* (nil File, bad magic, unsupported version) nothing has been written, and
\* when Read fails the File it returns is nil.
C10_NoPartialOutput ==
    /\ (Written /\ werr # NoErr) => out = <<>>
    /\ (phase = "read" /\ rerr # NoErr) => file.isNil
    /\ (phase = "reread" /\ rerr2 # NoErr) => file2.isNil


----------------------------------------------------------------------------
\* Properties of the Builder (checked under SpecBuild).

Done == bpc = "done"
\* The Build that returned took the parallel path.
RanParallel == slotWrites # <<>>
Fails(path) == ~buildEntry(opts, path).ok
Builds(path) == buildEntry(opts, path).ok
EntryOf(path) == buildEntry(opts, path).entry
ErrOf(path) == buildEntry(opts, path).err
IsSorted(sq) == \A i \in 1..(Len(sq) - 1) : ~StrLess(sq[i + 1], sq[i])
Occurrences(sq, x) == Cardinality({ i \in 1..Len(sq) : sq[i] = x })
SameBag(a, b) ==
    /\ Len(a) = Len(b)
    /\ \A i \in 1..Len(a) : Occurrences(a, a[i]) = Occurrences(b, a[i])
\* The appended paths in lexicographic order, whatever the order of the calls.
Canonical ==
    CHOOSE sq \in [1..Len(appended) -> { appended[i] : i \in 1..Len(appended) }] :
        IsSorted(sq) /\ SameBag(sq, appended)
\* What the serial loop returns for the appended paths in lexicographic order.
SerialResult == serialLoop(opts, Canonical, 1, NewFile, <<>>)

\* C3: whatever the number of workers and however the workers' receives and
\* completions interleave, a Build that returns has returned the File, the
\* error and the issues of the serial loop over the same inputs and options.
C3_ParallelEqualsSerial ==
    Done => /\ bfile = SerialResult.file
            /\ berr = SerialResult.err
            /\ issues = SerialResult.issues
\* A parallel Build has returned a File of two entries and skipped an input.
C3_Witness ==
    /\ Done /\ RanParallel
    /\ ~bfile.isNil /\ Len(bfile.Textures) >= 2 /\ issues # <<>>

\* C4: when Build returns, b.inputs is the lexicographic arrangement of the
\* appended paths, and entry i of the returned File is the entry of the i-th
\* smallest appended path that builds, whatever the order of the Append calls.
C4_LexicographicOrder ==
    Done =>
        /\ IsSorted(inputs) /\ SameBag(inputs, appended)
        /\ ~bfile.isNil =>
              \E good \in {SelectSeq(Canonical, Builds)} :
                 /\ Len(bfile.Textures) = Len(good)
                 /\ \A i \in 1..Len(good) : bfile.Textures[i] = EntryOf(good[i])
\* Build has returned two entries for paths appended in descending order.
C4_Witness ==
    /\ Done /\ ~bfile.isNil /\ Len(bfile.Textures) >= 2
    /\ \E i \in 1..(Len(appended) - 1) :
          /\ StrLess(appended[i + 1], appended[i])
          /\ Builds(appended[i]) /\ Builds(appended[i + 1])

\* C5: in a parallel Build no index is received twice, no result slot is
\* written twice, no two workers hold the same index, and when the workers
\* have all returned every index was received once and its slot written once.
C5_EachJobOnce ==
    /\ \A i \in DOMAIN recvCount : recvCount[i] <= 1 /\ slotWrites[i] <= 1
    /\ \A w1 \in DOMAIN whold : \A w2 \in DOMAIN whold :
          (w1 # w2 /\ whold[w1] # 0) => whold[w1] # whold[w2]
    /\ (bpc = "wait" /\ wg = 0) =>
          \A i \in 1..Len(inputs) : recvCount[i] = 1 /\ slotWrites[i] = 1
\* Two workers hold an index each while a third index waits in the queue.
C5_Witness ==
    /\ \E w1 \in DOMAIN whold : \E w2 \in DOMAIN whold :
          w1 # w2 /\ whold[w1] # 0 /\ whold[w2] # 0
    /\ jobs # <<>>

\* C6: with SkipInvalid, Build returns no error, b.issues holds one issue
\* (path and message) per failing input, and the File holds the entries of
\* the inputs that build, both in sorted input order, for every worker count.
C6_SkipInvalid ==
    (Done /\ opts.SkipInvalid) =>
        /\ berr = NoBErr /\ ~bfile.isNil
        /\ \E bad \in {SelectSeq(inputs, Fails)} :
              /\ Len(issues) = Len(bad)
              /\ \A k \in 1..Len(bad) :
                    issues[k] = [Path |-> bad[k], Error |-> ErrorString(ErrOf(bad[k]))]
        /\ \E good \in {SelectSeq(inputs, Builds)} :
              /\ Len(bfile.Textures) = Len(good)
              /\ \A k \in 1..Len(good) : bfile.Textures[k] = EntryOf(good[k])
\* A parallel Build with SkipInvalid has returned one entry and two issues.
C6_Witness ==
    /\ Done /\ opts.SkipInvalid /\ RanParallel
    /\ Len(issues) = 2 /\ Len(bfile.Textures) = 1

\* C7: without SkipInvalid, a Build over inputs of which one fails returns a
\* nil File and an error that wraps the failure of a failing input, which is
\* ErrUnsupportedInputFormat when that input has an unsupported extension.
C7_StrictFails ==
    (Done /\ ~opts.SkipInvalid /\ \E i \in 1..Len(inputs) : Fails(inputs[i])) =>
        /\ bfile.isNil
        /\ \E i \in 1..Len(inputs) :
              /\ Fails(inputs[i])
              /\ berr = WrapBuild(inputs[i], ErrOf(inputs[i]))
              /\ ToLower(Ext(inputs[i])) \notin {<<46, 112, 97, 97>>, <<46, 112, 97, 99>>}
                    => berr.cause = "ErrUnsupportedInputFormat"
\* A strict parallel Build over a valid input and a .txt input has failed.
C7_Witness ==
    /\ Done /\ ~opts.SkipInvalid /\ RanParallel
    /\ berr.cause = "ErrUnsupportedInputFormat"
    /\ \E i \in 1..Len(inputs) : Builds(inputs[i])

----------------------------------------------------------------------------
\* Header validation of Read (checked under SpecCodec).

\* Read has returned for a buffer.
ReadDone == src = "bytes" /\ phase = "read"
BadMagic == Len(inbuf) >= 4 /\ SubSeq(inbuf, 1, 4) # FileMagic
BadVersion ==
    /\ Len(inbuf) >= 8 /\ SubSeq(inbuf, 1, 4) = FileMagic
    /\ Uint32(SubSeq(inbuf, 5, 8)) # SupportedVersion

\* C11: a buffer of at least 4 bytes whose first 4 bytes are not the tag makes
\* Read fail with ErrInvalidMagic whatever follows, a buffer with the tag and
\* another 32-bit version makes it fail with ErrUnsupportedVersion, and in
\* both cases no entry was read and no File is returned.
C11_HeaderOrder ==
    ReadDone =>
        /\ BadMagic => (rerr.cause = "ErrInvalidMagic" /\ rerr.entry = -1 /\ file.isNil)
        /\ BadVersion =>
              (rerr.cause = "ErrUnsupportedVersion" /\ rerr.entry = -1 /\ file.isNil)
\* Read has returned for a buffer with a wrong tag, a wrong version and an
\* entry behind them.
C11_Witness ==
    /\ ReadDone /\ BadMagic /\ Len(inbuf) > 12
    /\ Uint32(SubSeq(inbuf, 5, 8)) # SupportedVersion
    /\ rerr.cause = "ErrInvalidMagic"

----------------------------------------------------------------------------
\* Truncated input (checked under SpecTrunc).

\* C12: Read of a proper prefix of what Write emitted fails: the error is a
\* short read or ErrInvalidASCIIZ and the File returned is nil.
C12_TruncatedFails ==
    phase = "truncated" =>
        /\ rerr2.cause \in {"EOF", "ErrUnexpectedEOF", "ErrInvalidASCIIZ"}
        /\ file2.isNil

----------------------------------------------------------------------------
\* Validator properties.

Range(s) == { s[k] : k \in 1..Len(s) }
\* The entries the last call validated, each with the index it was given.
Validated ==
    IF val.call = "ValidateEntry" THEN { << file.Textures[1], val.index >> }
    ELSE IF val.call = "ValidateFile" /\ ~file.isNil
         THEN { << file.Textures[k + 1], k >> : k \in 0..(Len(file.Textures) - 1) }
         ELSE {}
EntryChecks == { "paa_file empty", "pax_format range" }
CountChecks == { "mipmap_count/len", "mipmap_count_copy/len", "mipmap_count/copy" }
MipChecks == { "zero dimension", "always_zero", "always_three", "mip pax_format",
               "data_offset" }
\* Whether entry e violates the entry-level check c.
ViolatesEntryCheck(e, c) ==
    CASE c = "paa_file empty"        -> Len(e.PAAFile) = 0
      [] c = "pax_format range"      -> U32Int(e.PaxFormat) > 255
      [] c = "mipmap_count/len"      -> U32Int(e.MipMapCount) # Len(e.MipMaps)
      [] c = "mipmap_count_copy/len" -> U32Int(e.MipMapCountCopy) # Len(e.MipMaps)
      [] c = "mipmap_count/copy"     -> U32Int(e.MipMapCount) # U32Int(e.MipMapCountCopy)
\* Whether mip i (from 0) of entry e violates the mip-level check c.
ViolatesMipCheck(e, c, i) ==
    CASE c = "zero dimension" -> e.MipMaps[i + 1].Width = 0 \/ e.MipMaps[i + 1].Height = 0
      [] c = "always_zero"    -> e.MipMaps[i + 1].AlwaysZero # 0
      [] c = "always_three"   -> e.MipMaps[i + 1].AlwaysThree # 3
      [] c = "mip pax_format" -> /\ U32Int(e.PaxFormat) <= 255
                                 /\ e.MipMaps[i + 1].PaxFormat # U32Int(e.PaxFormat)
      [] c = "data_offset"    -> /\ i > 0
                                 /\ U32Int(e.MipMaps[i + 1].DataOffset)
                                      < U32Int(e.MipMaps[i].DataOffset)
EntryViolations(e, idx) ==
    { Issue(c, idx, -1) : c \in { c \in EntryChecks \cup CountChecks : ViolatesEntryCheck(e, c) } }
    \cup { Issue(x[1], idx, x[2]) :
             x \in { x \in MipChecks \X (0..(Len(e.MipMaps) - 1)) :
                       ViolatesMipCheck(e, x[1], x[2]) } }
\* Every violated check of the last call, as the issue that reports it.
Violations ==
    CASE val.call = "ValidateEntryNil" -> { Issue("entry is nil", val.index, -1) }
      [] val.call = "ValidateFile" /\ file.isNil -> { Issue("file is nil", -1, -1) }
      [] val.call = "ValidateFile" /\ ~file.isNil ->
            { Issue("magic", -1, -1) : x \in { x \in {1} : file.Magic \notin { <<>>, FileMagic } } }
            \cup { Issue("version", -1, -1) :
                     x \in { x \in {1} : U32Int(file.Version) \notin { 0, U32Int(SupportedVersion) } } }
            \cup UNION { EntryViolations(p[1], p[2]) : p \in Validated }
      [] OTHER -> UNION { EntryViolations(p[1], p[2]) : p \in Validated }

\* C13: ValidateFile and ValidateEntry collect all: every check is evaluated
\* on every entry and every mip whatever was violated before it, the error
\* returned holds one issue for each violated check and no other, and it is
\* nil exactly when no check is violated.
C13_CollectAll ==
    val.call # "none" =>
        /\ Range(val.err) = Violations
        /\ Len(val.err) = Cardinality(Violations)
        /\ (val.err = <<>>) <=> (Violations = {})
\* ValidateFile reported a header issue, issues of entry 0 and, behind them,
\* issues of both mips of entry 1.
C13_Witness ==
    /\ val.call = "ValidateFile" /\ Len(file.Textures) = 2
    /\ Issue("magic", -1, -1) \in Range(val.err)
    /\ Issue("paa_file empty", 0, -1) \in Range(val.err)
    /\ Issue("zero dimension", 1, 0) \in Range(val.err)
    /\ Issue("data_offset", 1, 1) \in Range(val.err)
    /\ Len(val.err) > 10

\* C14: the mip-count checks of an entry pass exactly when MipMapCount,
\* MipMapCountCopy and len(MipMaps) are all equal; each violated equality is
\* reported, and every such issue names the entry index passed in.
C14_MipCountChecks ==
    /\ \A x \in Range(val.err) :
          x.check \in CountChecks => \E p \in Validated : x.entry = p[2]
    /\ \A p \in Validated :
          /\ { x \in Range(val.err) : x.check \in CountChecks /\ x.entry = p[2] } = {}
               <=> /\ p[1].MipMapCount = p[1].MipMapCountCopy
                   /\ p[1].MipMapCount = U32(Len(p[1].MipMaps))
          /\ Issue("mipmap_count/len", p[2], -1) \in Range(val.err)
               <=> p[1].MipMapCount # U32(Len(p[1].MipMaps))
          /\ Issue("mipmap_count_copy/len", p[2], -1) \in Range(val.err)
               <=> p[1].MipMapCountCopy # U32(Len(p[1].MipMaps))
          /\ Issue("mipmap_count/copy", p[2], -1) \in Range(val.err)
               <=> p[1].MipMapCount # p[1].MipMapCountCopy
\* ValidateEntry was given index 7 and an entry whose two stored counts agree
\* with each other but not with the mip list; the issue names index 7.
C14_Witness ==
    /\ val.call = "ValidateEntry" /\ val.index = 7
    /\ file.Textures[1].MipMapCount = file.Textures[1].MipMapCountCopy
    /\ file.Textures[1].MipMapCount # U32(Len(file.Textures[1].MipMaps))
    /\ Issue("mipmap_count/len", 7, -1) \in Range(val.err)
    /\ Issue("mipmap_count/copy", 7, -1) \notin Range(val.err)

\* Offsets of the mips of e never decrease.
NonDecreasing(e) ==
    \A i, j \in 1..Len(e.MipMaps) :
        i < j => ~U32Lt(e.MipMaps[j].DataOffset, e.MipMaps[i].DataOffset)

\* C15: mip i is flagged for its data offset exactly when i > 0 and its offset
\* is less than the offset of mip i-1; mip 0 is never flagged, equal offsets
\* are accepted, and an entry has no offset issue iff its offsets never
\* decrease.
C15_OffsetAgainstPrevious ==
    \A p \in Validated :
        /\ \A i \in 0..(Len(p[1].MipMaps) - 1) :
              Issue("data_offset", p[2], i) \in Range(val.err)
                 <=> /\ i > 0
                     /\ U32Lt(p[1].MipMaps[i + 1].DataOffset, p[1].MipMaps[i].DataOffset)
        /\ { x \in Range(val.err) : x.check = "data_offset" /\ x.entry = p[2] } = {}
              <=> NonDecreasing(p[1])
\* Three mips whose offsets go down and then up to less than the first: only
\* the middle one is flagged.
C15_Witness ==
    /\ val.call = "ValidateEntry" /\ Len(file.Textures[1].MipMaps) = 3
    /\ U32Lt(file.Textures[1].MipMaps[2].DataOffset, file.Textures[1].MipMaps[1].DataOffset)
    /\ U32Lt(file.Textures[1].MipMaps[2].DataOffset, file.Textures[1].MipMaps[3].DataOffset)
    /\ U32Lt(file.Textures[1].MipMaps[3].DataOffset, file.Textures[1].MipMaps[1].DataOffset)
    /\ { x \in Range(val.err) : x.check = "data_offset" } = { Issue("data_offset", val.index, 1) }

----------------------------------------------------------------------------
\* Classifier properties.

\* token stands in s at the 0-based position pos, and the byte after it is
\* '_', '-' or '.', or s ends there.
MatchAt(s, token, pos) ==
    /\ pos + Len(token) <= Len(s)
    /\ \A j \in 1..Len(token) : s[pos + j] = token[j]
    /\ \/ pos + Len(token) = Len(s)
       \/ s[pos + Len(token) + 1] \in {95, 45, 46}
\* token stands in s at pos, whatever follows it.
OccursAt(s, token, pos) ==
    /\ pos + Len(token) <= Len(s)
    /\ \A j \in 1..Len(token) : s[pos + j] = token[j]
BoundaryMatches(s, token) == \E pos \in 0..Len(s) : MatchAt(s, token, pos)
\* The rules whose token boundary-matches in s.
MatchingRules(s) ==
    { k \in 1..Len(suffixGuessRules) : BoundaryMatches(s, suffixGuessRules[k].token) }
\* The string GuessSuffixTypeFromPath scans for the path of the call.
Scanned == stripExt(ToLower(call.arg))

\* C16: a token counts as matched only at an occurrence immediately followed
\* by '_', '-', '.' or the end of the scanned string; an occurrence followed
\* by another byte does not match, and later occurrences are still examined.
C16_TokenBoundary ==
    /\ call.fn = "containsTokenBoundary" =>
          call.res.ok = BoundaryMatches(call.arg, suffixGuessRules[call.rule].token)
    /\ call.fn = "GuessSuffixTypeFromPath" =>
          call.res.ok = (MatchingRules(Scanned) # {})
\* The token occurs first inside a longer word and later before a separator
\* or the end, and the call reports a match.
C16_Witness ==
    /\ call.fn = "containsTokenBoundary" /\ call.res.ok
    /\ \E p1, p2 \in 0..Len(call.arg) :
          /\ p1 < p2
          /\ OccursAt(call.arg, suffixGuessRules[call.rule].token, p1)
          /\ ~MatchAt(call.arg, suffixGuessRules[call.rule].token, p1)
          /\ \A q \in 0..(p2 - 1) : ~MatchAt(call.arg, suffixGuessRules[call.rule].token, q)
          /\ MatchAt(call.arg, suffixGuessRules[call.rule].token, p2)

\* token b occurs somewhere in token a.
TokenContains(a, b) == \E pos \in 0..Len(a) : OccursAt(a, b, pos)
\* The least element of a non-empty set of rule indices.
FirstOf(S) == CHOOSE k \in S : \A m \in S : k <= m

\* Where one token of the table contains another, the longer comes first.
LongerTokenFirst ==
    \A i, j \in 1..Len(suffixGuessRules) :
        (i # j /\ TokenContains(suffixGuessRules[i].token, suffixGuessRules[j].token))
           => i < j

\* C17: the class returned is that of the first rule in table order whose
\* token boundary-matches anywhere in the scanned string, whatever the
\* positions of the matches; (0, false) is returned only when no rule
\* matches; and where one table token contains another, the longer one comes
\* first in the table.
C17_FirstRuleInTableOrder ==
    /\ call.fn = "GuessSuffixTypeFromPath" =>
          IF MatchingRules(Scanned) = {}
          THEN call.res = [value |-> SuffixDiffuseSRGB, ok |-> FALSE]
          ELSE call.res = [value |-> suffixGuessRules[FirstOf(MatchingRules(Scanned))].value,
                           ok |-> TRUE]
    /\ LongerTokenFirst
\* Two rules of different classes match, the later rule of the table earlier
\* in the string; the class is that of the earlier rule of the table.
C17_Witness ==
    /\ call.fn = "GuessSuffixTypeFromPath" /\ call.res.ok
    /\ \E i, j \in MatchingRules(Scanned) : \E pi, pj \in 0..Len(Scanned) :
          /\ i < j /\ pj < pi
          /\ MatchAt(Scanned, suffixGuessRules[i].token, pi)
          /\ MatchAt(Scanned, suffixGuessRules[j].token, pj)
          /\ suffixGuessRules[i].value # suffixGuessRules[j].value
          /\ call.res.value = suffixGuessRules[i].value

HasDot(p) == \E i \in 1..Len(p) : p[i] = 46
\* The 1-based position of the last '.' of p.
LastDotPos(p) == CHOOSE i \in 1..Len(p) : p[i] = 46 /\ \A j \in (i + 1)..Len(p) : p[j] # 46
BeforeLastDot(p) == SubSeq(p, 1, LastDotPos(p) - 1)
\* The class of the first rule of the table that boundary-matches in s.
Classify(s) ==
    IF MatchingRules(s) = {} THEN [value |-> SuffixDiffuseSRGB, ok |-> FALSE]
    ELSE [value |-> suffixGuessRules[FirstOf(MatchingRules(s))].value, ok |-> TRUE]

\* C18 (as claimed): for every path containing a '.', the path is lowercased
\* and everything from its last '.' onward is removed before the table is
\* scanned, so no token matches inside or after the extension.
C18_StripsEveryDot ==
    (call.fn = "GuessSuffixTypeFromPath" /\ HasDot(call.arg)) =>
        call.res = Classify(BeforeLastDot(ToLower(call.arg)))

\* C18 (amended): for every path whose last '.' is not its first byte, the
\* path is lowercased and everything from that '.' onward is removed before
\* the table is scanned, so no token matches inside or after the extension; a
\* path whose only '.' is its first byte is lowercased and scanned whole.
C18_StripsDotPastFirstByte ==
    (call.fn = "GuessSuffixTypeFromPath" /\ HasDot(call.arg)) =>
        IF LastDotPos(call.arg) > 1
        THEN call.res = Classify(BeforeLastDot(ToLower(call.arg)))
        ELSE call.res = Classify(ToLower(call.arg))
\* The only tokens of the path stand behind its last '.', which is not its
\* first byte, and the path is not recognised.
C18_Witness ==
    /\ call.fn = "GuessSuffixTypeFromPath" /\ HasDot(call.arg)
    /\ LastDotPos(call.arg) > 1
    /\ MatchingRules(ToLower(call.arg)) # {}
    /\ ~call.res.ok

----------------------------------------------------------------------------
\* Worker-count properties.

\* min(max(P/4, 2), n) of the call.
AutoCandidate ==
    IF (IF call.arg.procs \div 4 > 2 THEN call.arg.procs \div 4 ELSE 2) < call.arg.fileCount
    THEN (IF call.arg.procs \div 4 > 2 THEN call.arg.procs \div 4 ELSE 2)
    ELSE call.arg.fileCount
IsPowerOfTwo(x) == \E e \in 0..16 : x = 2 ^ e

\* C19: resolveBuildWorkers gives 1 when n <= 1; for the automatic request the
\* largest power of two not above min(max(P/4, 2), n); 1 for any other
\* request <= 1; min(requested, n) otherwise; so always a value between 1 and
\* max(1, n).
C19_WorkerCount ==
    call.fn = "resolveBuildWorkers" =>
        /\ call.arg.fileCount <= 1 => call.res = 1
        /\ (call.arg.fileCount > 1 /\ call.arg.requested = WorkersAuto) =>
              /\ IsPowerOfTwo(call.res)
              /\ call.res <= AutoCandidate
              /\ 2 * call.res > AutoCandidate
        /\ (call.arg.fileCount > 1 /\ call.arg.requested # WorkersAuto
              /\ call.arg.requested <= 1) => call.res = 1
        /\ (call.arg.fileCount > 1 /\ call.arg.requested > 1) =>
              call.res = (IF call.arg.requested < call.arg.fileCount
                          THEN call.arg.requested ELSE call.arg.fileCount)
        /\ call.res >= 1
        /\ call.res <= (IF call.arg.fileCount > 1 THEN call.arg.fileCount ELSE 1)
\* An automatic request on a host whose quarter of processors exceeds the
\* file count, itself not a power of two: the result lies below it.
C19_Witness ==
    /\ call.fn = "resolveBuildWorkers" /\ call.arg.requested = WorkersAuto
    /\ call.arg.procs \div 4 > call.arg.fileCount
    /\ call.arg.fileCount > 4
    /\ call.res = 4 /\ call.res < call.arg.fileCount

----------------------------------------------------------------------------
\* Append properties.  call.res holds b.inputs as they were before the call.

\* The positions of the paths of ps that are empty once trimmed.
BlankAt(ps) == { i \in 1..Len(ps) : \A j \in 1..Len(ps[i]) : ps[i][j] \in {9, 10, 11, 12, 13, 32} }

\* C20: Append rejects a path that is empty after trimming white space with
\* ErrEmptyInputPath and leaves the inputs as they were; AppendMany stops at
\* the first rejected path, keeps the paths before it and adds none after it.
C20_AppendRejectsBlank ==
    /\ (call.fn = "Append" /\ BlankAt(call.arg) # {}) =>
          (appendErr = "ErrEmptyInputPath" /\ inputs = call.res)
    /\ (call.fn = "Append" /\ BlankAt(call.arg) = {}) =>
          (appendErr = "nil" /\ inputs = call.res \o call.arg)
    /\ (call.fn = "AppendMany" /\ BlankAt(call.arg) # {}) =>
          /\ appendErr = "ErrEmptyInputPath"
          /\ inputs = call.res \o SubSeq(call.arg, 1, FirstOf(BlankAt(call.arg)) - 1)
    /\ (call.fn = "AppendMany" /\ BlankAt(call.arg) = {}) =>
          (appendErr = "nil" /\ inputs = call.res \o call.arg)
\* AppendMany on a Builder that holds a path already, with a blank path
\* between two others: the first is added, the last is not.
C20_Witness ==
    /\ call.fn = "AppendMany" /\ Len(call.arg) = 3 /\ BlankAt(call.arg) = {2}
    /\ appendErr = "ErrEmptyInputPath"
    /\ Len(inputs) = Len(call.res) + 1
    /\ inputs[Len(inputs)] = call.arg[1]

----------------------------------------------------------------------------
\* Properties of Inputs() (checked under SpecInputs).

\* The lexicographic arrangement of sq.
Arranged(sq) ==
    CHOOSE t \in [1..Len(sq) -> { sq[i] : i \in 1..Len(sq) }] : IsSorted(t) /\ SameBag(t, sq)
\* A step in which Inputs() returns, and one in which its result is written.
InputsReturns == call' # call /\ call'.fn = "Inputs"
CopyWritten == call' # call /\ call'.fn = "InputsMutated"

\* C21 (as claimed): after any sequence of Append, AppendMany and Build calls
\* Inputs() returns the accepted paths in the order they were appended, as a
\* copy whose mutation does not reach the Builder.
C21_InputsInAppendOrder ==
    [][/\ InputsReturns => call'.res.elems = appended
       /\ CopyWritten => inputs' = inputs]_vars

\* C21 (amended): Inputs() returns exactly the accepted paths, as a copy
\* whose mutation does not reach the Builder; the paths a Build has sorted
\* come first, in lexicographic order, followed by the paths appended since
\* the last Build in the order they were appended.
C21_InputsSortedByBuild ==
    [][/\ InputsReturns =>
             call'.res.elems =
                Arranged(SubSeq(appended, 1, buildHist.builtLen))
                \o SubSeq(appended, buildHist.builtLen + 1, Len(appended))
       /\ CopyWritten => inputs' = inputs]_vars
\* Inputs() was taken after a Build had reordered the appended paths and a
\* path was appended behind them; the caller wrote into its copy, and the
\* Builder's list is as it was.
C21_Witness ==
    /\ call.fn = "InputsMutated"
    /\ buildHist.builtLen >= 2 /\ buildHist.builtLen < Len(appended)
    /\ Len(call.res.elems) = Len(inputs) /\ call.res.elems # inputs
    /\ inputs # appended /\ SameBag(inputs, appended)


----------------------------------------------------------------------------
\* Order of the stored paths (checked under SpecBuild).

\* The PAAFile values of a File's entries, in entry order.
StoredPaths(f) == [i \in 1..Len(f.Textures) |-> f.Textures[i].PAAFile]

\* C22: the entries of the File Build returns are in lexicographic order of
\* their stored paths, the PAAFile values normalizePath produced.
C22_SortedByStoredPath ==
    (Done /\ ~bfile.isNil) => IsSorted(StoredPaths(bfile))


----------------------------------------------------------------------------
\* Path options (checked under SpecPath).

CountByte(str, c) == Cardinality({ i \in 1..Len(str) : str[i] = c })
UpperCount(str) == Cardinality({ i \in 1..Len(str) : str[i] >= 65 /\ str[i] <= 90 })

\* C23: the stored path has its '/' replaced by '\' only when the caller
\* enabled BackslashPaths and is lowercased only when the caller enabled
\* LowercasePaths: with an option false the stored path keeps the slashes,
\* or the upper-case letters, of the cleaned input.
C23_OptionControlled ==
    call.fn = "normalizePath" =>
        /\ call.arg.opts.BackslashPaths => CountByte(call.res, 47) = 0
        /\ call.arg.opts.LowercasePaths => UpperCount(call.res) = 0
        /\ ~call.arg.opts.BackslashPaths =>
              CountByte(call.res, 47) = CountByte(filepathClean(call.arg.path), 47)
        /\ ~call.arg.opts.LowercasePaths =>
              UpperCount(call.res) = UpperCount(call.arg.path)


----------------------------------------------------------------------------
\* Strict mode on the two build paths (checked under SpecBuild).

\* Input k of b.inputs is the first, in sorted order, that fails.
FirstFailing(k) ==
    /\ k \in 1..Len(inputs)
    /\ Fails(inputs[k])
    /\ \A j \in 1..(k - 1) : Builds(inputs[j])
\* A Build in strict mode has returned an error.
StrictFailed == Done /\ ~opts.SkipInvalid /\ berr # NoBErr

\* C24: a strict Build that fails returns the failure of the first failing
\* input in sorted order; on the parallel path every queued index was received
\* and its job ran to completion, once, before the return; on the serial path
\* buildEntry was called on the inputs up to the failing one and on no later
\* input.
C24_StrictPathsDiffer ==
    StrictFailed =>
        \E k \in 1..Len(inputs) :
           /\ FirstFailing(k)
           /\ berr = WrapBuild(inputs[k], ErrOf(inputs[k]))
           /\ IF RanParallel
              THEN /\ DOMAIN slotWrites = 1..Len(inputs)
                   /\ \A i \in 1..Len(inputs) : recvCount[i] = 1 /\ slotWrites[i] = 1
              ELSE buildHist.serialCalls = k
\* A strict serial Build has returned at a failing input that later inputs,
\* one of which builds, follow in sorted order.
C24_Witness ==
    /\ StrictFailed /\ ~RanParallel
    /\ buildHist.serialCalls < Len(inputs)
    /\ \E j \in (buildHist.serialCalls + 1)..Len(inputs) : Builds(inputs[j])
\* A strict parallel Build has returned the failure of one input after the
\* jobs of the inputs behind it ran.
C24_ParallelRanAll ==
    /\ StrictFailed /\ RanParallel
    /\ \E k \in 1..(Len(inputs) - 1) : FirstFailing(k) /\ slotWrites[k + 1] = 1


----------------------------------------------------------------------------
\* The join of the parallel Build (checked under SpecBuildFair).

\* A parallel Build is between the start of its dispatch loop and its return.
PoolRunning == bpc \in {"dispatch", "wait"}
\* The orchestrator's next send finds room in the channel.
SendNeverBlocks ==
    (bpc = "dispatch" /\ nextJob <= Len(inputs)) => ENABLED Dispatch
\* wg.Wait() has returned: every worker has exited, the channel is closed and
\* drained, and every index was received once and its slot written once.
JoinedBeforeCollect ==
    (bpc = "wait" /\ wg = 0) =>
        /\ \A w \in DOMAIN wpc : wpc[w] = "exit"
        /\ jobsClosed /\ jobs = <<>>
        /\ \A i \in 1..Len(inputs) : recvCount[i] = 1 /\ slotWrites[i] = 1
\* The result slots are read by the collecting loop only: the Build does not
\* return while a worker is running.
NoReturnBeforeJoin ==
    [][(PoolRunning /\ bpc' = "done") => (wg = 0 /\ \A w \in DOMAIN wpc : wpc[w] = "exit")]_vars

\* C25: a parallel Build's sends never block, its collecting loop runs only
\* after every worker has exited and every index has been processed, and
\* every parallel Build that starts returns.
C25_ParallelTerminates ==
    /\ []SendNeverBlocks
    /\ []JoinedBeforeCollect
    /\ NoReturnBeforeJoin
    /\ (bpc = "dispatch") ~> Done
\* The workers of a Build over three inputs have all exited, before the
\* collecting loop.
C25_Witness ==
    /\ bpc = "wait" /\ wg = 0 /\ Len(inputs) = MaxInputs
    /\ Len(wpc) >= 2 /\ \A w \in DOMAIN wpc : wpc[w] = "exit"


----------------------------------------------------------------------------
\* Reading the stored path (checked under SpecPathRead).

RECURSIVE FieldsSize(_, _)
FieldsSize(fields, k) ==
    IF k > Len(fields) THEN 0 ELSE fields[k].size + FieldsSize(fields, k + 1)
\* The number of bytes of the stream before the path of entry i (1-based) of
\* a stream of entries with the paths ps.
BytesBeforePath(ps, i) ==
    Len(PathStream(SubSeq(ps, 1, i - 1))) + FieldsSize(EntryHeadFields, 1)
\* The first n bytes of the stream end inside the path of entry i: the bytes
\* before the path are there, the zero byte after the path is not.
EndsInsidePath(ps, n, i) ==
    /\ i \in 1..Len(ps)
    /\ n >= BytesBeforePath(ps, i)
    /\ n <= BytesBeforePath(ps, i) + Len(ps[i])

\* C26: Read of a stream that ends inside the path of an entry fails with
\* ErrInvalidASCIIZ for that entry and returns no File, never the plain
\* end-of-stream errors; Read of the whole stream returns every path as the
\* bytes before its zero byte, the empty path included.
C26_PathTerminator ==
    phase = "read" =>
        /\ \A i \in 1..Len(call.arg.paths) :
              EndsInsidePath(call.arg.paths, call.arg.n, i) =>
                 /\ file.isNil
                 /\ rerr.cause = "ErrInvalidASCIIZ" /\ rerr.entry = i - 1
        /\ call.arg.n = Len(PathStream(call.arg.paths)) =>
              /\ rerr = NoErr /\ ~file.isNil
              /\ Len(file.Textures) = Len(call.arg.paths)
              /\ \A i \in 1..Len(call.arg.paths) :
                    file.Textures[i].PAAFile = call.arg.paths[i]
        /\ rerr.cause = "ErrInvalidASCIIZ" =>
              \E i \in 1..Len(call.arg.paths) :
                 EndsInsidePath(call.arg.paths, call.arg.n, i)
\* Read has failed on a stream that ends after the first byte of the path of
\* its second entry, whose first entry has the empty path.
C26_Witness ==
    /\ phase = "read" /\ Len(call.arg.paths) = 2
    /\ call.arg.paths[1] = <<>> /\ Len(call.arg.paths[2]) >= 2
    /\ call.arg.n = BytesBeforePath(call.arg.paths, 2) + 1
    /\ rerr.cause = "ErrInvalidASCIIZ"
\* Read has returned a File whose first entry has the empty path.
C26_EmptyPathRead ==
    /\ phase = "read" /\ rerr = NoErr /\ Len(file.Textures) = 2
    /\ file.Textures[1].PAAFile = <<>> /\ file.Textures[2].PAAFile = <<97, 92, 98>>


----------------------------------------------------------------------------
\* The inputsSorted flag (checked under SpecInputs).

\* C27: whenever b.inputsSorted is true b.inputs is in non-decreasing
\* lexicographic order; so when Build has returned, whether it sorted or
\* skipped the sort, b.inputs is in order and the entries of the File are the
\* entries of the inputs that build, in that order.
C27_FlagImpliesSorted ==
    /\ inputsSorted => IsSorted(inputs)
    /\ Done => /\ inputsSorted
               /\ ~bfile.isNil =>
                     bfile.Textures =
                        [i \in 1..Len(SelectSeq(inputs, Builds)) |->
                            EntryOf(SelectSeq(inputs, Builds)[i])]
\* Build has returned for three paths, not all the same, that were appended
\* in non-decreasing order: the flag was true and the sort was skipped.
C27_Witness ==
    /\ Done /\ Len(inputs) = MaxInputs /\ appended = inputs
    /\ inputs[1] # inputs[MaxInputs] /\ ~bfile.isNil /\ Len(bfile.Textures) >= 2


----------------------------------------------------------------------------
\* The issues of a Build (checked under SpecBuild).

\* The issues of one skip-invalid pass over the inputs ins: one issue for
\* every input that fails, in list order.
IssuesOf(ins) ==
    [i \in 1..Len(SelectSeq(ins, Fails)) |->
        BuildIssue(SelectSeq(ins, Fails)[i], ErrOf(SelectSeq(ins, Fails)[i]))]

\* C28: when Build has returned, b.issues holds the issues of that Build
\* only: none in strict mode, one per failing input in sorted input order in
\* skip-invalid mode, where the entries and the issues together are as many
\* as the appended inputs; a Build repeated with no path appended in between
\* returns the same File and error and leaves the same issues.
C28_IssuesOfLastBuild ==
    Done =>
        /\ issues = IF opts.SkipInvalid THEN IssuesOf(inputs) ELSE <<>>
        /\ opts.SkipInvalid =>
              /\ ~bfile.isNil /\ berr = NoBErr
              /\ Len(bfile.Textures) + Len(issues) = Len(appended)
        /\ buildHist.prev.valid =>
              /\ bfile = buildHist.prev.file
              /\ berr = buildHist.prev.err
              /\ issues = buildHist.prev.issues
\* A skip-invalid Build over three inputs has returned for the second time
\* in a row, with entries and with issues.
C28_Witness ==
    /\ Done /\ opts.SkipInvalid /\ buildHist.prev.valid
    /\ Len(inputs) = MaxInputs /\ issues # <<>> /\ Len(bfile.Textures) >= 1


----------------------------------------------------------------------------
\* The error of a strict Build with several failing inputs (checked under
\* SpecBuild).

\* The positions of b.inputs whose input fails.
FailingPositions == { i \in 1..Len(inputs) : Fails(inputs[i]) }
\* The smallest of a non-empty set of positions.
Lowest(S) == CHOOSE i \in S : \A j \in S : i <= j

\* C29: a strict Build over inputs of which two or more fail returns no File
\* and the error of the failing input at the lowest position of the sorted
\* inputs, wrapped with that input's path: the serial loop's error, whatever
\* the number of workers and the order in which they completed the jobs.
C29_LowestFailingReported ==
    (Done /\ ~opts.SkipInvalid /\ Cardinality(FailingPositions) >= 2) =>
        /\ bfile.isNil
        /\ berr.input = inputs[Lowest(FailingPositions)]
        /\ berr.cause = ErrOf(inputs[Lowest(FailingPositions)]).cause
        /\ berr.path = ErrOf(inputs[Lowest(FailingPositions)]).path
        /\ berr = serialLoop(opts, inputs, 1, NewFile, <<>>).err
\* A strict parallel Build has returned for inputs that fail for two
\* different causes, appended with the later one first.
C29_Witness ==
    /\ Done /\ RanParallel /\ ~opts.SkipInvalid
    /\ \E i, j \in FailingPositions :
          /\ i < j /\ ErrOf(inputs[i]).cause # ErrOf(inputs[j]).cause
    /\ Fails(appended[1]) /\ appended[1] # inputs[Lowest(FailingPositions)]


----------------------------------------------------------------------------
\* Format codes of built entries (checked under SpecEntry).

\* The fixed table: provider type, on-disk format code.
FormatTable ==
    { <<PaxGRAYA, 1>>, <<PaxARGBA5, 3>>, <<PaxARGB4, 4>>, <<PaxARGB8, 5>>,
      <<PaxDXT1, 6>>, <<PaxDXT2, 7>>, <<PaxDXT3, 8>>, <<PaxDXT4, 9>>, <<PaxDXT5, 10>> }
\* The path is an existing texture file, so that buildEntry gets to its type.
IsTexture(path) == FileExists(path) /\ ToLower(Ext(path)) = <<46, 112, 97, 97>>
FormatIssues(entry) ==
    { k \in 1..Len(ValidateEntry(entry, 0)) :
         ValidateEntry(entry, 0)[k].check \in {"pax_format range", "mip pax_format"} }

C30_UnmappedRejected ==
    /\ call.fn = "buildEntry" /\ IsTexture(call.arg) /\ ~call.res.ok
    /\ SourceFile(call.arg).meta.Type = 300

========================================================================
